---- MODULE Spec2Model ----
(***************************************************************************)
(* Easy Volume Compressor (Firefox add-on): settings store, key resolver   *)
(* and messaging coordinator.                                              *)
(*                                                                         *)
(* The repository holds three background implementations; a build loads    *)
(* exactly one of them:                                                    *)
(*   "coordinator"  src/unnamed/part_003   (key based, siteSettings)       *)
(*   "manager"      src/unnamed/part_006   (SettingsManager, TypeScript)   *)
(*   "legacy"       src/src/js/background.js (activeDomain based)          *)
(* and two content scripts, one per page:                                  *)
(*   "content"      src/src/js/content.js  (EasyVolumeCompressor)          *)
(*   "index"        src/src/content/index.ts (AudioCompressor)             *)
(* The variable impl records which one runs.                               *)
(*   Spec         each background, loaded, storage readable and writable   *)
(*   SpecFailure  the same, and a storage write of part_003 may reject     *)
(*   SpecStartup  part_003 and background.js from the start of the script  *)
(*   SpecPage     one page with its content script and its media elements  *)
(*   SpecValidate validateSettings of part_006 alone                       *)
(*   SpecMeter    content.js with the panels and meters of the popups      *)
(*   SpecNotify   part_006 with a tab whose address names another site     *)
(*   SpecAnswer   part_003 with every storage write and push settling      *)
(*                                                                         *)
(* Units: the JavaScript defaults of part_003 give attack and release in   *)
(* seconds (0.003, 0.25); the model counts them in milliseconds (3, 250)   *)
(* so that every value is an integer.                                      *)
(***************************************************************************)
EXTENDS Integers, Sequences, FiniteSets, TLC

\* ------------------------------------------------------------------ bounds
MaxReq == 2        \* requests and events that reach an await in one run
MaxNodes == 2      \* audio contexts of a page, source nodes of an element,
                   \* interval timers of a page and monitoring messages in
                   \* flight to it, in one run

\* ids of the tabs of a run
TabIds == {1}

\* ------------------------------------------------------- optional values
None == <<>>
Some(x) == <<x>>

\* ------------------------------------------------------------- settings
DEFAULT_SETTINGS ==
  [enabled |-> TRUE, ratio |-> 4, threshold |-> -20,
   attack |-> 3, release |-> 250, outputGain |-> 0]

\* { ...a, ...b }: every property of b, and the properties of a that b lacks
Spread(a, b) ==
  [f \in (DOMAIN a) \cup (DOMAIN b) |-> IF f \in DOMAIN b THEN b[f] ELSE a[f]]

\* settings objects a popup or another sender may put into a message
SettingsFull ==
  [enabled |-> FALSE, ratio |-> 8, threshold |-> -30,
   attack |-> 10, release |-> 100, outputGain |-> 6]
SettingsPartial == [enabled |-> FALSE, threshold |-> -24]
MessageSettings == {SettingsFull, SettingsPartial}

\* ------------------------------------------------------------ addresses
\* An address is the string href; prefix is the leading scheme token of the
\* string (what String.startsWith sees), parses tells whether new URL(href)
\* succeeds, protocol and hostname are the fields of the parsed URL, and parts
\* cuts the string into the pieces String.includes can match.
UrlHttps == [href |-> "https://a.com/watch", prefix |-> "https:", parses |-> TRUE,
             protocol |-> "https:", hostname |-> "a.com",
             parts |-> <<"https://", "a.com", "/watch">>]
UrlHttp  == [href |-> "http://b.org/", prefix |-> "http:", parses |-> TRUE,
             protocol |-> "http:", hostname |-> "b.org",
             parts |-> <<"http://", "b.org", "/">>]
UrlFile  == [href |-> "file:///home/u/clip.html", prefix |-> "file:", parses |-> TRUE,
             protocol |-> "file:", hostname |-> "",
             parts |-> <<"file://", "/home/u/clip.html">>]
UrlAbout == [href |-> "about:blank", prefix |-> "about:", parses |-> TRUE,
             protocol |-> "about:", hostname |-> "", parts |-> <<"about:", "blank">>]
UrlBad   == [href |-> "http://", prefix |-> "http:", parses |-> FALSE,
             protocol |-> "", hostname |-> "", parts |-> <<"http://">>]
UrlEmpty == [href |-> "", prefix |-> "", parses |-> FALSE,
             protocol |-> "", hostname |-> "", parts |-> <<>>]
\* a page of b.org whose address names a.com in its query
UrlRef   == [href |-> "https://b.org/?from=a.com", prefix |-> "https:", parses |-> TRUE,
             protocol |-> "https:", hostname |-> "b.org",
             parts |-> <<"https://", "b.org", "/?from=", "a.com">>]
AllUrls == {UrlHttps, UrlHttp, UrlFile, UrlAbout, UrlBad, UrlEmpty}

\* addresses of the tabs of a run
TabUrls == {UrlHttps, UrlAbout}

\* `tab-${tabId}`
TabKey(t) ==
  CASE t = 1 -> "tab-1"
    [] t = 2 -> "tab-2"
    [] t = 3 -> "tab-3"
    [] OTHER -> "tab-4"

\* popup.js getKeyFromUrl: "" stands for null
getKeyFromUrl(url) ==
  IF url.href = "" THEN ""
  ELSE IF url.prefix # "http:" /\ url.prefix # "https:"
       THEN IF url.prefix = "file:" THEN url.href ELSE ""
       ELSE IF url.parses THEN url.hostname ELSE ""

\* popup.js DOMContentLoaded: the key the popup uses for the active tab
settingsKey(url, t) ==
  IF getKeyFromUrl(url) # "" THEN getKeyFromUrl(url) ELSE TabKey(t)

\* part_003 REQUEST_INITIAL_SETTINGS: contentKey, "" stands for null
contentKey(url) ==
  IF ~url.parses THEN ""
  ELSE IF url.protocol = "file:" THEN url.href
  ELSE IF url.protocol \in {"http:", "https:"} THEN url.hostname
  ELSE ""

\* every key a popup can send, and "" for a message without key
PopupKeys == {settingsKey(u, t) : u \in TabUrls, t \in TabIds}


\* ------------------------------------------------------------------ state
VARIABLES
  impl,          \* which background implementation is loaded
  siteSettings,  \* part_003: in-memory cache, key -> settings object
  storageDoc,    \* part_003: the document stored under STORAGE_KEY
  tabs,          \* per tab: open, address, content script listening, page settings,
                 \*          whether its REQUEST_INITIAL_SETTINGS is in flight, and the
                 \*          response to it while on its way to the page
  removedQ,      \* tabs whose tabs.onRemoved event is not yet handled
  req,           \* requests and events that reached an await, with their position
  pushQ,         \* requests whose tabs.sendMessage is in flight, oldest first
  reply,         \* the request answered last without any await, and its response
  lastWriter     \* history: per key, the request that last assigned or deleted it

coordVars ==
  <<siteSettings, storageDoc, removedQ, req, pushQ, reply, lastWriter>>

VARIABLES
  smCache,       \* part_006: SettingsManager.cache, domain -> settings
  smStorage,     \* part_006: storage.local, one entry per domain
  smCalls,       \* part_006: the calls of getSettings / saveSettings /
                 \*           clearDomainSettings so far, with their position
  smEvents       \* part_006: storage.onChanged events not yet delivered

smVars == <<smCache, smStorage, smCalls, smEvents>>

VARIABLES
  domainSettings, \* background.js: in-memory settings, domain -> settings object
  domainStore,    \* background.js: the document stored under 'domainSettings'
  activeTabId,    \* background.js: id of the tab activated last, 0 for null
  activeDomain,   \* background.js: hostname looked up for it, "" for null or ""
  lgLoad,         \* background.js: the storage.local.get of onInstalled is in flight
  lgLookups,      \* background.js: tab ids whose tabs.get is in flight
  lgWrites,       \* background.js: documents whose storage.local.set is in flight
  lgPushes,       \* background.js: SETTINGS_UPDATED messages in flight, oldest first
  lgReply,        \* background.js: the request answered last, and its response
  lgSaved         \* history: the records an earlier run of background.js left in
                  \*          storage, less those a request of this run has written

legacyVars ==
  <<domainSettings, domainStore, activeTabId, activeDomain, lgLoad, lgLookups,
    lgWrites, lgPushes, lgReply, lgSaved>>

VARIABLES
  loads,         \* part_003: calls of loadSettingsFromStorage in flight, each with
                 \*           its position and the document its storage.local.get read
  bootEvents,    \* part_003: runtime events the browser has yet to raise in this start
  loadCount,     \* history: how often a load has assigned the cache in this start
  savedDoc       \* history: the document the earlier run left in storage

startVars == <<loads, bootEvents, loadCount, savedDoc>>

VARIABLES
  page,          \* content script of one page: its fields, and what has happened
  elems          \* per media element: in the document, in mediaElements, its nodes

pageVars == <<page, elems>>

VARIABLES
  probe          \* the argument and the results of a pure function under check

vars == <<impl, tabs, coordVars, smVars, legacyVars, startVars, pageVars, probe>>

\* what the handlers of the coordinator leave alone
outsideCoord == <<impl, smVars, legacyVars, startVars, pageVars, probe>>

EmptyDoc == [k \in {} |-> DEFAULT_SETTINGS]

\* delete obj[key]
Delete(obj, key) == [k \in (DOMAIN obj) \ {key} |-> obj[k]]

\* obj[key] = value
Assign(obj, key, value) ==
  [k \in (DOMAIN obj) \cup {key} |-> IF k = key THEN value ELSE obj[k]]

\* documents a previous run may have left in storage
InitialDocs == {EmptyDoc, Assign(EmptyDoc, "a.com", SettingsPartial)}

NoResp ==
  [sent |-> FALSE, success |-> FALSE, settings |-> None, warning |-> FALSE, error |-> ""]
SettingsResp(s) == [NoResp EXCEPT !.sent = TRUE, !.settings = Some(s)]
ErrorResp(e) == [NoResp EXCEPT !.sent = TRUE, !.error = e]

NewReq(type, key, tabId, settings) ==
  [type |-> type, key |-> key, tabId |-> tabId, settings |-> settings,
   pc |-> "done", doc |-> None, resp |-> NoResp, existed |-> FALSE]

\* key is the key the handler looked up; seen is history: the last writer of
\* that key when the request was answered, -1 if the key had no stored record
NoReply == [type |-> "", key |-> "", tabId |-> 0, resp |-> NoResp, seen |-> 0]
Reply(type, key, tabId, resp, seen) ==
  [type |-> type, key |-> key, tabId |-> tabId, resp |-> resp, seen |-> seen]

\* history: key was never assigned in this run nor stored by an earlier one
NoStoredRecord(key) ==
  key \in DOMAIN lastWriter /\ lastWriter[key] = 0 /\ key \notin DOMAIN storageDoc

CanReceive == Len(req) < MaxReq
NextId == Len(req) + 1

\* variant: the lookup of a key without record is answered with an error
GetSettingsResponseStrict(key) ==
  IF key = "" THEN SettingsResp(DEFAULT_SETTINGS)
  ELSE IF key \in DOMAIN siteSettings
       THEN SettingsResp(Spread(DEFAULT_SETTINGS, siteSettings[key]))
       ELSE ErrorResp("No settings")

\* part_003 GET_SETTINGS: the response for message.key = key
GetSettingsResponse(key) ==
  IF key = "" THEN SettingsResp(DEFAULT_SETTINGS)
  ELSE IF key \in DOMAIN siteSettings
       THEN SettingsResp(Spread(DEFAULT_SETTINGS, siteSettings[key]))
       ELSE SettingsResp(DEFAULT_SETTINGS)

\* keys and tab ids a popup opened on tab t puts into its messages
PopupKeyOf(t) == settingsKey(tabs[t].url, t)

NewTab(u) ==
  [open |-> TRUE, url |-> u, ready |-> FALSE, settings |-> None, ris |-> FALSE,
   initial |-> None]

CoordInit ==
  /\ \E d \in InitialDocs : siteSettings = d /\ storageDoc = d
  /\ removedQ = {}
  /\ req = <<>>
  /\ pushQ = <<>>
  /\ reply = NoReply
  /\ lastWriter = [k \in PopupKeys |-> 0]

\* ---- case 'GET_SETTINGS'
HandleGetSettings(key) ==
  /\ impl = "coordinator"
  /\ reply' = Reply("GET_SETTINGS", key, 0, GetSettingsResponse(key),
                    IF NoStoredRecord(key) THEN -1
                    ELSE IF key = "" THEN 0 ELSE lastWriter[key])
  /\ UNCHANGED outsideCoord /\ UNCHANGED <<siteSettings, storageDoc, tabs, removedQ, req, pushQ, lastWriter>>

\* variant: the tab id is checked after the cache was updated
HandleUpdateSettingsLateCheck(key, tabId, settings) ==
  /\ impl = "coordinator"
  /\ IF key = "" \/ settings = None
     THEN /\ reply' = Reply("UPDATE_SETTINGS", "", 0, ErrorResp("Missing key or settings"), 0)
          /\ UNCHANGED <<siteSettings, lastWriter, req>>
     ELSE IF tabId = 0
     THEN /\ reply' = Reply("UPDATE_SETTINGS", "", 0, ErrorResp("Missing tabId"), 0)
          /\ siteSettings' = Assign(siteSettings, key, settings[1])
          /\ UNCHANGED <<lastWriter, req>>
     ELSE /\ CanReceive
          /\ siteSettings' = Assign(siteSettings, key, settings[1])
          /\ lastWriter' = [lastWriter EXCEPT ![key] = NextId]
          /\ req' = Append(req, [NewReq("UPDATE_SETTINGS", key, tabId, settings)
                                  EXCEPT !.pc = "save",
                                         !.doc = Some(siteSettings')])
          /\ UNCHANGED reply
  /\ UNCHANGED outsideCoord /\ UNCHANGED <<storageDoc, tabs, removedQ, pushQ>>

\* ---- case 'UPDATE_SETTINGS', up to the first await
HandleUpdateSettings(key, tabId, settings) ==
  /\ impl = "coordinator"
  /\ IF key = "" \/ settings = None
     THEN /\ reply' = Reply("UPDATE_SETTINGS", "", 0, ErrorResp("Missing key or settings"), 0)
          /\ UNCHANGED <<siteSettings, lastWriter, req>>
     ELSE IF tabId = 0
     THEN /\ reply' = Reply("UPDATE_SETTINGS", "", 0, ErrorResp("Missing tabId"), 0)
          /\ UNCHANGED <<siteSettings, lastWriter, req>>
     ELSE /\ CanReceive
          /\ siteSettings' = Assign(siteSettings, key, settings[1])
          /\ lastWriter' = [lastWriter EXCEPT ![key] = NextId]
          \* saveSettingsToStorage: storage.local.set is called with the cache
          /\ req' = Append(req, [NewReq("UPDATE_SETTINGS", key, tabId, settings)
                                  EXCEPT !.pc = "save",
                                         !.doc = Some(siteSettings')])
          /\ UNCHANGED reply
  /\ UNCHANGED outsideCoord /\ UNCHANGED <<storageDoc, tabs, removedQ, pushQ>>

\* ---- case 'RESET_SETTINGS', up to the first await
HandleResetSettings(key, tabId) ==
  /\ impl = "coordinator"
  /\ IF key = ""
     THEN /\ reply' = Reply("RESET_SETTINGS", "", 0,
                 [ErrorResp("Missing key") EXCEPT !.settings = Some(DEFAULT_SETTINGS)], 0)
          /\ UNCHANGED <<siteSettings, lastWriter, req, pushQ>>
     ELSE IF tabId = 0
     THEN /\ reply' = Reply("RESET_SETTINGS", "", 0,
                 [ErrorResp("Missing tabId") EXCEPT !.settings = Some(DEFAULT_SETTINGS)], 0)
          /\ UNCHANGED <<siteSettings, lastWriter, req, pushQ>>
     ELSE IF key \in DOMAIN siteSettings
     THEN /\ CanReceive
          /\ siteSettings' = Delete(siteSettings, key)
          /\ lastWriter' = [lastWriter EXCEPT ![key] = NextId]
          /\ req' = Append(req, [NewReq("RESET_SETTINGS", key, tabId, None)
                                  EXCEPT !.pc = "save", !.existed = TRUE,
                                         !.doc = Some(siteSettings')])
          /\ UNCHANGED <<pushQ, reply>>
     ELSE \* nothing to persist: tabs.sendMessage is called at once
          /\ CanReceive
          /\ req' = Append(req, [NewReq("RESET_SETTINGS", key, tabId, None)
                                  EXCEPT !.pc = "push"])
          /\ pushQ' = Append(pushQ, NextId)
          /\ lastWriter' = [lastWriter EXCEPT ![key] = NextId]
          /\ UNCHANGED <<siteSettings, reply>>
  /\ UNCHANGED outsideCoord /\ UNCHANGED <<storageDoc, tabs, removedQ>>

\* the message a request pushes to its tab
PushedSettings(r) ==
  IF r.type = "UPDATE_SETTINGS" THEN r.settings[1] ELSE DEFAULT_SETTINGS

\* ---- storage.local.set of request i completes; its handler resumes
SaveResolve(i) ==
  /\ impl = "coordinator"
  /\ i \in 1..Len(req) /\ req[i].pc = "save"
  /\ storageDoc' = req[i].doc[1]
  /\ IF req[i].type = "TAB_REMOVED"
     THEN /\ req' = [req EXCEPT ![i].pc = "done", ![i].doc = None]
          /\ UNCHANGED pushQ
     ELSE \* browser.tabs.sendMessage(tabId, SETTINGS_UPDATED)
          /\ req' = [req EXCEPT ![i].pc = "push", ![i].doc = None]
          /\ pushQ' = Append(pushQ, i)
  /\ UNCHANGED outsideCoord /\ UNCHANGED <<siteSettings, tabs, removedQ, reply, lastWriter>>

\* ---- storage.local.set of request i rejects: saveSettingsToStorage logs the
\* ---- error and returns, and the handler resumes as after a write
SaveReject(i) ==
  /\ impl = "coordinator"
  /\ i \in 1..Len(req) /\ req[i].pc = "save"
  /\ IF req[i].type = "TAB_REMOVED"
     THEN /\ req' = [req EXCEPT ![i].pc = "done", ![i].doc = None]
          /\ UNCHANGED pushQ
     ELSE /\ req' = [req EXCEPT ![i].pc = "push", ![i].doc = None]
          /\ pushQ' = Append(pushQ, i)
  /\ UNCHANGED outsideCoord
  /\ UNCHANGED <<siteSettings, storageDoc, tabs, removedQ, reply, lastWriter>>

\* position p of pushQ is the oldest message in flight to its tab
OldestForTab(p) ==
  \A q \in 1..(p - 1) : req[pushQ[q]].tabId # req[pushQ[p]].tabId

RemoveAt(seq, p) == SubSeq(seq, 1, p - 1) \o SubSeq(seq, p + 1, Len(seq))

PushResponse(r, warned) ==
  IF r.type = "UPDATE_SETTINGS"
  THEN [NoResp EXCEPT !.sent = TRUE, !.success = TRUE, !.warning = warned]
  ELSE [SettingsResp(DEFAULT_SETTINGS) EXCEPT !.warning = warned]

\* ---- tabs.sendMessage resolves: the content script of the tab got the message
PushDelivered(p) ==
  /\ impl = "coordinator"
  /\ p \in 1..Len(pushQ) /\ OldestForTab(p)
  /\ LET i == pushQ[p]
         t == req[i].tabId
     IN /\ tabs[t].open /\ tabs[t].ready
        \* content.js onMessage SETTINGS_UPDATED: this.settings = message.settings
        /\ tabs' = [tabs EXCEPT ![t].settings = Some(PushedSettings(req[i]))]
        /\ req' = [req EXCEPT ![i].pc = "done", ![i].resp = PushResponse(req[i], FALSE)]
  /\ pushQ' = RemoveAt(pushQ, p)
  /\ UNCHANGED outsideCoord /\ UNCHANGED <<siteSettings, storageDoc, removedQ, reply, lastWriter>>

\* variant: a failed push rolls the write back
PushFailedRollback(p) ==
  /\ impl = "coordinator"
  /\ p \in 1..Len(pushQ) /\ OldestForTab(p)
  /\ LET i == pushQ[p]
         t == req[i].tabId
     IN /\ ~(tabs[t].open /\ tabs[t].ready)
        /\ req' = [req EXCEPT ![i].pc = "done", ![i].resp = PushResponse(req[i], TRUE)]
        /\ siteSettings' = IF req[i].type = "UPDATE_SETTINGS"
                           THEN Delete(siteSettings, req[i].key) ELSE siteSettings
  /\ pushQ' = RemoveAt(pushQ, p)
  /\ UNCHANGED outsideCoord /\ UNCHANGED <<storageDoc, tabs, removedQ, reply, lastWriter>>

\* variant: the catch of a failed push logs the error and sends no response
PushFailedSilent(p) ==
  /\ impl = "coordinator"
  /\ p \in 1..Len(pushQ) /\ OldestForTab(p)
  /\ LET i == pushQ[p]
         t == req[i].tabId
     IN /\ ~(tabs[t].open /\ tabs[t].ready)
        /\ req' = [req EXCEPT ![i].pc = "done"]
  /\ pushQ' = RemoveAt(pushQ, p)
  /\ UNCHANGED outsideCoord /\ UNCHANGED <<siteSettings, storageDoc, tabs, removedQ, reply, lastWriter>>

\* ---- tabs.sendMessage rejects: tab closed or no listener in it
PushFailed(p) ==
  /\ impl = "coordinator"
  /\ p \in 1..Len(pushQ) /\ OldestForTab(p)
  /\ LET i == pushQ[p]
         t == req[i].tabId
     IN /\ ~(tabs[t].open /\ tabs[t].ready)
        /\ req' = [req EXCEPT ![i].pc = "done", ![i].resp = PushResponse(req[i], TRUE)]
  /\ pushQ' = RemoveAt(pushQ, p)
  /\ UNCHANGED outsideCoord /\ UNCHANGED <<siteSettings, storageDoc, tabs, removedQ, reply, lastWriter>>

\* ---- content.js constructor: sends REQUEST_INITIAL_SETTINGS, then listens
ContentScriptStart(t) ==
  /\ impl = "coordinator"
  /\ tabs[t].open /\ ~tabs[t].ready
  /\ tabs' = [tabs EXCEPT ![t].ready = TRUE, ![t].ris = TRUE]
  /\ UNCHANGED outsideCoord /\ UNCHANGED <<siteSettings, storageDoc, removedQ, req, pushQ, reply, lastWriter>>

\* variant: the stored object is sent as it is, not merged over the defaults
InitialSettingsResponseRaw(url) ==
  LET key == contentKey(url)
  IN IF url.href = "" THEN ErrorResp("Invalid sender")
     ELSE IF key # "" /\ key \in DOMAIN siteSettings
          THEN SettingsResp(siteSettings[key])
          ELSE SettingsResp(DEFAULT_SETTINGS)

\* part_003 REQUEST_INITIAL_SETTINGS: the response for sender.tab.url = url
InitialSettingsResponse(url) ==
  LET key == contentKey(url)
      initialSettings ==
        IF key # "" /\ key \in DOMAIN siteSettings
        THEN Spread(DEFAULT_SETTINGS, siteSettings[key])
        ELSE DEFAULT_SETTINGS
  IN IF url.href = "" THEN ErrorResp("Invalid sender")
     ELSE SettingsResp(initialSettings)

\* ---- case 'REQUEST_INITIAL_SETTINGS' with sender.tab = t
HandleRequestInitialSettings(t) ==
  /\ impl = "coordinator"
  /\ tabs[t].ris
  /\ tabs' = [tabs EXCEPT ![t].ris = FALSE,
                          ![t].initial = Some(InitialSettingsResponse(tabs[t].url))]
  /\ reply' = Reply("REQUEST_INITIAL_SETTINGS", contentKey(tabs[t].url), t,
                    InitialSettingsResponse(tabs[t].url),
                    IF contentKey(tabs[t].url) \in DOMAIN lastWriter
                    THEN lastWriter[contentKey(tabs[t].url)] ELSE 0)
  /\ UNCHANGED outsideCoord /\ UNCHANGED <<siteSettings, storageDoc, removedQ, req, pushQ, lastWriter>>

\* ---- content.js requestInitialSettings resumes with the response: it takes
\* ---- response.settings; without settings it evaluates { ...DEFAULT_SETTINGS },
\* ---- a name content.js does not declare, and the rejection leaves this.settings
InitialSettingsDelivered(t) ==
  /\ impl = "coordinator"
  /\ tabs[t].open /\ tabs[t].initial # None
  /\ tabs' = [tabs EXCEPT ![t].initial = None,
                          ![t].settings = IF tabs[t].initial[1].settings # None
                                          THEN tabs[t].initial[1].settings
                                          ELSE tabs[t].settings]
  /\ UNCHANGED outsideCoord /\ UNCHANGED coordVars

\* ---- the browser closes tab t; its onRemoved event is queued
CloseTab(t) ==
  /\ impl = "coordinator"
  /\ tabs[t].open
  /\ tabs' = [tabs EXCEPT ![t].open = FALSE, ![t].ready = FALSE, ![t].settings = None,
                          ![t].ris = FALSE, ![t].initial = None]
  /\ removedQ' = removedQ \cup {t}
  /\ UNCHANGED outsideCoord /\ UNCHANGED <<siteSettings, storageDoc, req, pushQ, reply, lastWriter>>

\* variant: the cleanup is not persisted
OnRemovedNoSave(t) ==
  /\ impl = "coordinator"
  /\ t \in removedQ
  /\ removedQ' = removedQ \ {t}
  /\ siteSettings' = Delete(siteSettings, TabKey(t))
  /\ lastWriter' = [lastWriter EXCEPT ![TabKey(t)] = NextId]
  /\ UNCHANGED outsideCoord /\ UNCHANGED <<storageDoc, tabs, req, pushQ, reply>>

\* ---- tabs.onRemoved listener
OnRemoved(t) ==
  /\ impl = "coordinator"
  /\ t \in removedQ
  /\ removedQ' = removedQ \ {t}
  /\ IF TabKey(t) \in DOMAIN siteSettings
     THEN /\ CanReceive
          /\ siteSettings' = Delete(siteSettings, TabKey(t))
          /\ lastWriter' = [lastWriter EXCEPT ![TabKey(t)] = NextId]
          \* saveSettingsToStorage() is not awaited
          /\ req' = Append(req, [NewReq("TAB_REMOVED", TabKey(t), t, None)
                                  EXCEPT !.pc = "save", !.existed = TRUE,
                                         !.doc = Some(siteSettings')])
     ELSE UNCHANGED <<siteSettings, lastWriter, req>>
  /\ UNCHANGED outsideCoord /\ UNCHANGED <<storageDoc, tabs, pushQ, reply>>

CoordNext ==
  \/ \E k \in PopupKeys \cup {""} : HandleGetSettings(k)
  \/ \E t \in TabIds, m \in MessageSettings :
        HandleUpdateSettings(PopupKeyOf(t), t, Some(m))
  \/ \E t \in TabIds : \/ HandleUpdateSettings("", t, Some(SettingsFull))
                       \/ HandleUpdateSettings(PopupKeyOf(t), t, None)
                       \/ HandleUpdateSettings(PopupKeyOf(t), 0, Some(SettingsFull))
  \/ \E t \in TabIds : HandleResetSettings(PopupKeyOf(t), t)
  \/ \E t \in TabIds : \/ HandleResetSettings("", t)
                       \/ HandleResetSettings(PopupKeyOf(t), 0)
  \/ \E i \in 1..MaxReq : SaveResolve(i)
  \/ \E p \in 1..MaxReq : PushDelivered(p)
  \/ \E p \in 1..MaxReq : PushFailed(p)
  \/ \E t \in TabIds : ContentScriptStart(t)
  \/ \E t \in TabIds : HandleRequestInitialSettings(t)
  \/ \E t \in TabIds : InitialSettingsDelivered(t)
  \/ \E t \in TabIds : CloseTab(t)
  \/ \E t \in TabIds : OnRemoved(t)

\* =================================================== SettingsManager (TS)
\* JavaScript values of a settings field
Num(n) == <<"number", n>>
Bool(b) == <<"boolean", b>>
Undefined == <<"undefined">>      \* also a property that is missing
Text == <<"string">>              \* a non-empty string that is not a numeral
NotANumber == <<"NaN">>

\* Number(v)
ToNumber(v) ==
  CASE v[1] = "number" -> v
    [] v[1] = "boolean" -> IF v[2] THEN Num(1) ELSE Num(0)
    [] OTHER -> NotANumber

\* Boolean(v)
ToBoolean(v) ==
  CASE v[1] = "boolean" -> v
    [] v[1] = "number" -> Bool(v[2] # 0)
    [] v[1] = "string" -> Bool(TRUE)
    [] OTHER -> Bool(FALSE)

\* v || d for a number or NaN v: 0 and NaN are falsy
OrElse(v, d) == IF v = NotANumber \/ v = Num(0) THEN d ELSE v

\* Math.max(lo, Math.min(hi, v)) for a number v
MaxMin(lo, hi, v) ==
  LET m == IF v[2] < hi THEN v[2] ELSE hi
  IN Num(IF m > lo THEN m ELSE lo)

\* part_001 DEFAULT_SETTINGS (attack and release in ms)
DEFAULT_SETTINGS_TS ==
  [enabled |-> Bool(TRUE), threshold |-> Num(-24), ratio |-> Num(4),
   attack |-> Num(5), release |-> Num(50), gain |-> Num(0)]

\* part_006 SettingsManager.validateSettings
validateSettings(settings) ==
  [enabled   |-> ToBoolean(settings.enabled),
   threshold |-> MaxMin(-100, 0, OrElse(ToNumber(settings.threshold), DEFAULT_SETTINGS_TS.threshold)),
   ratio     |-> MaxMin(1, 20, OrElse(ToNumber(settings.ratio), DEFAULT_SETTINGS_TS.ratio)),
   attack    |-> MaxMin(0, 100, OrElse(ToNumber(settings.attack), DEFAULT_SETTINGS_TS.attack)),
   release   |-> MaxMin(0, 1000, OrElse(ToNumber(settings.release), DEFAULT_SETTINGS_TS.release)),
   gain      |-> MaxMin(-20, 20, OrElse(ToNumber(settings.gain), DEFAULT_SETTINGS_TS.gain))]

\* settings objects sent in SAVE_SETTINGS
TsInRange ==
  [enabled |-> Bool(FALSE), threshold |-> Num(-30), ratio |-> Num(8),
   attack |-> Num(10), release |-> Num(100), gain |-> Num(6)]
\* no flag, a threshold below and a release above the range, a ratio that is
\* no number, an attack on the lower bound of its range, no gain
TsBroken ==
  [enabled |-> Undefined, threshold |-> Num(-150), ratio |-> Text,
   attack |-> Num(0), release |-> Num(2000), gain |-> Undefined]
SaveInputs == {TsInRange, TsBroken}

SmDomains == {"a.com", "b.org"}

EmptyStore == [k \in {} |-> DEFAULT_SETTINGS_TS]
SmInitialStores == {EmptyStore, Assign(EmptyStore, "a.com", TsInRange)}

NewCall(op, domain, input) ==
  [op |-> op, domain |-> domain, input |-> input, value |-> None,
   pc |-> "done", snap |-> None, result |-> None]

SmCanCall == Len(smCalls) < MaxReq

\* tab.url?.includes(domain), for the addresses and domains of the model
Includes(url, domain) ==
  \/ domain = url.href
  \/ \E i \in 1..Len(url.parts) : url.parts[i] = domain

SmInit ==
  /\ smCache = EmptyStore
  /\ smStorage \in SmInitialStores
  /\ smCalls = <<>>
  /\ smEvents = <<>>

SmIdle ==
  /\ smCache = EmptyStore
  /\ smStorage = EmptyStore
  /\ smCalls = <<>>
  /\ smEvents = <<>>

\* what the methods of the SettingsManager leave alone
outsideSm == <<impl, coordVars, legacyVars, startVars, pageVars, probe>>

\* ---- getSettings(domain), up to the await of storage.local.get
GetSettingsStart(domain) ==
  /\ impl = "manager" /\ SmCanCall
  /\ IF domain \in DOMAIN smCache
     THEN smCalls' = Append(smCalls, [NewCall("get", domain, None)
                                       EXCEPT !.result = Some(smCache[domain])])
     ELSE smCalls' = Append(smCalls, [NewCall("get", domain, None) EXCEPT !.pc = "read"])
  /\ UNCHANGED outsideSm /\ UNCHANGED <<tabs, smCache, smStorage, smEvents>>

\* ---- storage.local.get(domain) reads the store
GetSettingsRead(c) ==
  /\ impl = "manager"
  /\ c \in 1..Len(smCalls) /\ smCalls[c].pc = "read"
  /\ smCalls' = [smCalls EXCEPT ![c].pc = "resume",
                                ![c].snap = IF smCalls[c].domain \in DOMAIN smStorage
                                            THEN Some(smStorage[smCalls[c].domain])
                                            ELSE None]
  /\ UNCHANGED outsideSm /\ UNCHANGED <<tabs, smCache, smStorage, smEvents>>

\* ---- getSettings resumes: result[domain] || DEFAULT_SETTINGS, cache.set
GetSettingsResume(c) ==
  /\ impl = "manager"
  /\ c \in 1..Len(smCalls) /\ smCalls[c].pc = "resume"
  /\ LET settings == IF smCalls[c].snap # None THEN smCalls[c].snap[1]
                     ELSE DEFAULT_SETTINGS_TS
     IN /\ smCache' = Assign(smCache, smCalls[c].domain, settings)
        /\ smCalls' = [smCalls EXCEPT ![c].pc = "done", ![c].snap = None,
                                      ![c].result = Some(settings)]
  /\ UNCHANGED outsideSm /\ UNCHANGED <<tabs, smStorage, smEvents>>

\* ---- saveSettings(domain, settings), up to the await of storage.local.set
SaveSettingsStart(domain, settings) ==
  /\ impl = "manager" /\ SmCanCall
  /\ smCalls' = Append(smCalls, [NewCall("save", domain, Some(settings))
                                  EXCEPT !.pc = "set",
                                         !.value = Some(validateSettings(settings))])
  /\ UNCHANGED outsideSm /\ UNCHANGED <<tabs, smCache, smStorage, smEvents>>

\* ---- storage.local.set completes, saveSettings resumes: cache.set, notifyTabs
SaveSettingsStored(c) ==
  /\ impl = "manager"
  /\ c \in 1..Len(smCalls) /\ smCalls[c].pc = "set"
  /\ smStorage' = Assign(smStorage, smCalls[c].domain, smCalls[c].value[1])
  /\ smEvents' = Append(smEvents, [key |-> smCalls[c].domain, newValue |-> smCalls[c].value])
  /\ smCache' = Assign(smCache, smCalls[c].domain, smCalls[c].value[1])
  /\ smCalls' = [smCalls EXCEPT ![c].pc = "notify"]
  /\ UNCHANGED outsideSm /\ UNCHANGED tabs

\* ---- clearDomainSettings(domain), up to the await of storage.local.remove
ClearDomainSettingsStart(domain) ==
  /\ impl = "manager" /\ SmCanCall
  /\ smCalls' = Append(smCalls, [NewCall("clear", domain, None)
                                  EXCEPT !.pc = "remove",
                                         !.value = Some(DEFAULT_SETTINGS_TS)])
  /\ UNCHANGED outsideSm /\ UNCHANGED <<tabs, smCache, smStorage, smEvents>>

\* ---- storage.local.remove completes, clearDomainSettings resumes
ClearDomainSettingsRemoved(c) ==
  /\ impl = "manager"
  /\ c \in 1..Len(smCalls) /\ smCalls[c].pc = "remove"
  /\ smStorage' = Delete(smStorage, smCalls[c].domain)
  /\ smEvents' = IF smCalls[c].domain \in DOMAIN smStorage
                 THEN Append(smEvents, [key |-> smCalls[c].domain, newValue |-> None])
                 ELSE smEvents
  /\ smCache' = Delete(smCache, smCalls[c].domain)
  /\ smCalls' = [smCalls EXCEPT ![c].pc = "notify"]
  /\ UNCHANGED outsideSm /\ UNCHANGED tabs

\* ---- notifyTabs(domain, settings): SETTINGS_UPDATED to every matching tab
NotifyTabs(c) ==
  /\ impl = "manager"
  /\ c \in 1..Len(smCalls) /\ smCalls[c].pc = "notify"
  /\ tabs' = [t \in TabIds |->
                IF tabs[t].open /\ tabs[t].ready /\ Includes(tabs[t].url, smCalls[c].domain)
                THEN [tabs[t] EXCEPT !.settings = smCalls[c].value]
                ELSE tabs[t]]
  /\ smCalls' = [smCalls EXCEPT ![c].pc = "done"]
  /\ UNCHANGED outsideSm /\ UNCHANGED <<smCache, smStorage, smEvents>>

\* ---- storage.onChanged listener, for the oldest undelivered change
StorageChanged ==
  /\ impl = "manager"
  /\ smEvents # <<>>
  /\ smCache' = IF Head(smEvents).newValue # None
                THEN Assign(smCache, Head(smEvents).key, Head(smEvents).newValue[1])
                ELSE Delete(smCache, Head(smEvents).key)
  /\ smEvents' = Tail(smEvents)
  /\ UNCHANGED outsideSm /\ UNCHANGED <<tabs, smStorage, smCalls>>

\* ---- src/content/index.ts setupMessageListener: the page starts to listen
PageListen(t) ==
  /\ impl = "manager"
  /\ tabs[t].open /\ ~tabs[t].ready
  /\ tabs' = [tabs EXCEPT ![t].ready = TRUE]
  /\ UNCHANGED outsideSm /\ UNCHANGED smVars

SmNext ==
  \/ \E d \in SmDomains : GetSettingsStart(d)
  \/ \E c \in 1..MaxReq : GetSettingsRead(c)
  \/ \E c \in 1..MaxReq : GetSettingsResume(c)
  \/ \E d \in SmDomains, i \in SaveInputs : SaveSettingsStart(d, i)
  \/ \E c \in 1..MaxReq : SaveSettingsStored(c)
  \/ \E d \in SmDomains : ClearDomainSettingsStart(d)
  \/ \E c \in 1..MaxReq : ClearDomainSettingsRemoved(c)
  \/ \E c \in 1..MaxReq : NotifyTabs(c)
  \/ StorageChanged
  \/ \E t \in TabIds : PageListen(t)

\* ================================== background.js (activeDomain based)
\* documents an earlier run of background.js may have left in storage
LegacyInitialDocs == {EmptyDoc, Assign(EmptyDoc, "a.com", SettingsFull)}

LegacyInit ==
  /\ domainSettings = EmptyDoc
  /\ domainStore \in LegacyInitialDocs
  /\ activeTabId = 0 /\ activeDomain = ""
  /\ lgLoad \in BOOLEAN      \* TRUE: the run starts with an install or update
  /\ lgLookups = {} /\ lgWrites = <<>> /\ lgPushes = <<>>
  /\ lgReply = NoReply
  /\ lgSaved = domainStore

LegacyIdle ==
  /\ domainSettings = EmptyDoc /\ domainStore = EmptyDoc
  /\ activeTabId = 0 /\ activeDomain = ""
  /\ lgLoad = FALSE
  /\ lgLookups = {} /\ lgWrites = <<>> /\ lgPushes = <<>>
  /\ lgReply = NoReply
  /\ lgSaved = EmptyDoc

\* what the handlers of background.js leave alone
outsideLegacy == <<impl, coordVars, smVars, startVars, pageVars, probe>>

\* ---- onInstalled: storage.local.get('domainSettings') resolves
LegacyLoadResolve ==
  /\ impl = "legacy" /\ lgLoad
  /\ lgLoad' = FALSE
  /\ domainSettings' = domainStore
  /\ UNCHANGED outsideLegacy
  /\ UNCHANGED <<tabs, domainStore, activeTabId, activeDomain, lgLookups, lgWrites,
                 lgPushes, lgReply, lgSaved>>

\* ---- tabs.onActivated listener, up to tabs.get(activeTabId)
OnActivated(t) ==
  /\ impl = "legacy" /\ tabs[t].open
  /\ activeTabId' = t
  /\ lgLookups' = lgLookups \cup {t}
  /\ UNCHANGED outsideLegacy
  /\ UNCHANGED <<tabs, domainSettings, domainStore, activeDomain, lgLoad, lgWrites,
                 lgPushes, lgReply, lgSaved>>

\* ---- tabs.get(t) settles; a rejection (tab gone) is not handled
LookupResolve(t) ==
  /\ impl = "legacy" /\ t \in lgLookups
  /\ lgLookups' = lgLookups \ {t}
  /\ activeDomain' =
       IF tabs[t].open /\ tabs[t].url.href # ""
       THEN IF tabs[t].url.parses THEN tabs[t].url.hostname ELSE ""
       ELSE activeDomain
  /\ UNCHANGED outsideLegacy
  /\ UNCHANGED <<tabs, domainSettings, domainStore, activeTabId, lgLoad, lgWrites,
                 lgPushes, lgReply, lgSaved>>

\* domain && domainSettings[domain] ? domainSettings[domain] : DEFAULT_SETTINGS
LegacySettingsOf(domain) ==
  IF domain # "" /\ domain \in DOMAIN domainSettings
  THEN domainSettings[domain] ELSE DEFAULT_SETTINGS

\* ---- case 'GET_SETTINGS' sent by the popup
LegacyGetSettings ==
  /\ impl = "legacy"
  /\ lgReply' = Reply("GET_SETTINGS", activeDomain, activeTabId,
                      SettingsResp(LegacySettingsOf(activeDomain)), 0)
  /\ UNCHANGED outsideLegacy
  /\ UNCHANGED <<tabs, domainSettings, domainStore, activeTabId, activeDomain, lgLoad,
                 lgLookups, lgWrites, lgPushes, lgSaved>>

\* ---- part_002 constructor: sends GET_SETTINGS, then listens
LegacyContentStart(t) ==
  /\ impl = "legacy"
  /\ tabs[t].open /\ ~tabs[t].ready
  /\ tabs' = [tabs EXCEPT ![t].ready = TRUE, ![t].ris = TRUE]
  /\ UNCHANGED outsideLegacy /\ UNCHANGED legacyVars

\* ---- case 'GET_SETTINGS' sent by the content script of tab t
LegacyGetFromContent(t) ==
  /\ impl = "legacy"
  /\ tabs[t].ris /\ tabs[t].url.parses
  /\ tabs' = [tabs EXCEPT ![t].ris = FALSE]
  /\ lgReply' = Reply("GET_SETTINGS", tabs[t].url.hostname, t,
                      SettingsResp(LegacySettingsOf(tabs[t].url.hostname)), 0)
  /\ UNCHANGED outsideLegacy
  /\ UNCHANGED <<domainSettings, domainStore, activeTabId, activeDomain, lgLoad,
                 lgLookups, lgWrites, lgPushes, lgSaved>>

LegacyCanReceive == Len(lgWrites) < MaxReq /\ Len(lgPushes) < MaxReq

\* the writes of UPDATE_SETTINGS and RESET_SETTINGS: the assignment, the
\* storage.local.set({ domainSettings }) and the tabs.sendMessage, none awaited
LegacyStore(settings) ==
  /\ LegacyCanReceive
  /\ domainSettings' = Assign(domainSettings, activeDomain, settings)
  /\ lgWrites' = Append(lgWrites, domainSettings')
  /\ lgPushes' = IF activeTabId # 0
                 THEN Append(lgPushes, [tabId |-> activeTabId, settings |-> settings])
                 ELSE lgPushes
  /\ lgSaved' = Delete(lgSaved, activeDomain)

\* ---- case 'UPDATE_SETTINGS' sent by the popup
LegacyUpdateSettings(settings) ==
  /\ impl = "legacy"
  /\ IF activeDomain = ""
     THEN /\ lgReply' = Reply("UPDATE_SETTINGS", "", activeTabId,
                              ErrorResp("No domain available"), 0)
          /\ UNCHANGED <<domainSettings, lgWrites, lgPushes, lgSaved>>
     ELSE /\ LegacyStore(settings)
          /\ lgReply' = Reply("UPDATE_SETTINGS", activeDomain, activeTabId,
                              [NoResp EXCEPT !.sent = TRUE, !.success = TRUE], 0)
  /\ UNCHANGED outsideLegacy
  /\ UNCHANGED <<tabs, domainStore, activeTabId, activeDomain, lgLoad, lgLookups>>

\* ---- case 'RESET_SETTINGS' sent by the popup
LegacyResetSettings ==
  /\ impl = "legacy"
  /\ IF activeDomain = ""
     THEN /\ lgReply' = Reply("RESET_SETTINGS", "", activeTabId,
                 [ErrorResp("No domain available")
                    EXCEPT !.settings = Some(DEFAULT_SETTINGS)], 0)
          /\ UNCHANGED <<domainSettings, lgWrites, lgPushes, lgSaved>>
     ELSE /\ LegacyStore(DEFAULT_SETTINGS)
          /\ lgReply' = Reply("RESET_SETTINGS", activeDomain, activeTabId,
                              SettingsResp(DEFAULT_SETTINGS), 0)
  /\ UNCHANGED outsideLegacy
  /\ UNCHANGED <<tabs, domainStore, activeTabId, activeDomain, lgLoad, lgLookups>>

\* ---- a storage.local.set({ domainSettings }) completes
LegacyStored(i) ==
  /\ impl = "legacy"
  /\ i \in 1..Len(lgWrites)
  /\ domainStore' = lgWrites[i]
  /\ lgWrites' = RemoveAt(lgWrites, i)
  /\ UNCHANGED outsideLegacy
  /\ UNCHANGED <<tabs, domainSettings, activeTabId, activeDomain, lgLoad, lgLookups,
                 lgPushes, lgReply, lgSaved>>

\* position p of lgPushes is the oldest message in flight to its tab
LegacyOldestForTab(p) ==
  \A q \in 1..(p - 1) : lgPushes[q].tabId # lgPushes[p].tabId

\* ---- tabs.sendMessage settles: the page takes the settings, or the
\* ---- rejection (tab closed, no listener) is logged by the catch
LegacyPushSettled(p) ==
  /\ impl = "legacy"
  /\ p \in 1..Len(lgPushes) /\ LegacyOldestForTab(p)
  /\ LET t == lgPushes[p].tabId
     IN tabs' = IF tabs[t].open /\ tabs[t].ready
                THEN [tabs EXCEPT ![t].settings = Some(lgPushes[p].settings)]
                ELSE tabs
  /\ lgPushes' = RemoveAt(lgPushes, p)
  /\ UNCHANGED outsideLegacy
  /\ UNCHANGED <<domainSettings, domainStore, activeTabId, activeDomain, lgLoad,
                 lgLookups, lgWrites, lgReply, lgSaved>>

\* ---- the browser closes tab t; background.js has no onRemoved listener
LegacyCloseTab(t) ==
  /\ impl = "legacy"
  /\ tabs[t].open
  /\ tabs' = [tabs EXCEPT ![t].open = FALSE, ![t].ready = FALSE, ![t].settings = None,
                          ![t].ris = FALSE, ![t].initial = None]
  /\ UNCHANGED outsideLegacy /\ UNCHANGED legacyVars

LegacyNext ==
  \/ LegacyLoadResolve
  \/ \E t \in TabIds : OnActivated(t)
  \/ \E t \in TabIds : LookupResolve(t)
  \/ LegacyGetSettings
  \/ \E t \in TabIds : LegacyContentStart(t)
  \/ \E t \in TabIds : LegacyGetFromContent(t)
  \/ LegacyUpdateSettings(SettingsFull)
  \/ LegacyResetSettings
  \/ \E i \in 1..MaxReq : LegacyStored(i)
  \/ \E p \in 1..MaxReq : LegacyPushSettled(p)
  \/ \E t \in TabIds : LegacyCloseTab(t)

\* =========================================== part_003: start of the script
\* a call of loadSettingsFromStorage that waits for its storage.local.get
NewLoad == [pc |-> "get", doc |-> None]

\* the background script has just been evaluated: the cache is {} (line 18),
\* the call at line 233 is in flight, and the browser may raise onInstalled
\* (install, update) or onStartup (browser start) in this start, or neither
CoordStart ==
  /\ siteSettings = EmptyDoc
  /\ storageDoc \in InitialDocs
  /\ removedQ = {} /\ req = <<>> /\ pushQ = <<>> /\ reply = NoReply
  /\ lastWriter = [k \in PopupKeys |-> 0]
  /\ loads = <<NewLoad>>
  /\ bootEvents \in {{}, {"onInstalled"}, {"onStartup"}}
  /\ loadCount = 0
  /\ savedDoc = storageDoc

\* no load is in flight and none is counted
StartIdle ==
  /\ loads = <<>> /\ bootEvents = {} /\ loadCount = 0 /\ savedDoc = EmptyDoc

\* what the start of the script leaves alone
outsideStart == <<impl, tabs, smVars, legacyVars, pageVars, probe>>

\* ---- runtime.onInstalled / runtime.onStartup listener: loadSettingsFromStorage()
OnBootEvent(e) ==
  /\ impl = "coordinator"
  /\ e \in bootEvents
  /\ bootEvents' = bootEvents \ {e}
  /\ loads' = Append(loads, NewLoad)
  /\ UNCHANGED outsideStart /\ UNCHANGED coordVars
  /\ UNCHANGED <<loadCount, savedDoc>>

\* ---- loadSettingsFromStorage: storage.local.get(STORAGE_KEY) reads the document
LoadRead(l) ==
  /\ impl = "coordinator"
  /\ l \in 1..Len(loads) /\ loads[l].pc = "get"
  /\ loads' = [loads EXCEPT ![l].pc = "assign", ![l].doc = Some(storageDoc)]
  /\ UNCHANGED outsideStart /\ UNCHANGED coordVars
  /\ UNCHANGED <<bootEvents, loadCount, savedDoc>>

\* ---- loadSettingsFromStorage resumes: siteSettings = result[STORAGE_KEY], or {}
\* ---- when the key is absent (an absent key and an empty document are one here)
LoadAssign(l) ==
  /\ impl = "coordinator"
  /\ l \in 1..Len(loads) /\ loads[l].pc = "assign"
  /\ siteSettings' = loads[l].doc[1]
  /\ loads' = RemoveAt(loads, l)
  /\ loadCount' = loadCount + 1
  /\ UNCHANGED outsideStart
  /\ UNCHANGED <<storageDoc, removedQ, req, pushQ, reply, lastWriter>>
  /\ UNCHANGED <<bootEvents, savedDoc>>

\* at most two loads are ever in flight: line 233 and the listener raised
MaxLoads == 2

StartNext ==
  \/ \E e \in {"onInstalled", "onStartup"} : OnBootEvent(e)
  \/ \E l \in 1..MaxLoads : LoadRead(l)
  \/ \E l \in 1..MaxLoads : LoadAssign(l)

\* ===================== content scripts: content.js and content/index.ts
\* media elements of the page
Elements == {"e1", "e2"}

\* an element no content script has seen; edges holds the connections that
\* reach the speakers: "bypass" is source -> destination, "compressor" is the
\* connection that completes the compressor path (gainNode -> destination in
\* content.js, source -> compressor in index.ts); peak is the largest number
\* of them that were connected at one moment, and swaps tells how often the
\* element went from one path to the other: never, once, or twice and more;
\* params holds what was written last to the element's compressor node
\* (content.js) or, in the page, to the shared one (index.ts), times in ms
NewElem(inDoc) ==
  [inDoc |-> inDoc, attached |-> FALSE, sources |-> 0, edges |-> {},
   connected |-> FALSE, detached |-> FALSE, peak |-> 0, swaps |-> 0,
   params |-> None]

NewPage ==
  [settings |-> None, context |-> FALSE, initialized |-> FALSE,
   initializationError |-> FALSE, gainNode |-> FALSE, clickArmed |-> FALSE,
   response |-> FALSE, gesture |-> FALSE, contexts |-> 0, last |-> "", tried |-> FALSE,
   params |-> None,
   \* content.js metering: the two flags, the number of interval timers that
   \* run, the number of START_LEVEL_MONITORING handled since the last STOP,
   \* and the last tick: the elements that played, whether a START had been
   \* handled and no STOP since, and the messages sent
   isPopupOpen |-> FALSE, isMonitoringLevel |-> FALSE, timers |-> 0,
   starts |-> 0, tick |-> None,
   \* popup.js: a panel is open for the page, and the monitoring messages the
   \* panels have sent that the page has yet to handle, in the order sent
   panel |-> FALSE, sent |-> <<>>,
   \* popup.js, part_005: what the meters of the open panel show, and the tab
   \* the values came from
   meter |-> None]

\* the constructors: content.js 11-46 (settings null, REQUEST_INITIAL_SETTINGS
\* sent), index.ts 4-17 and 123-146 (default settings, listeners registered,
\* GET_SETTINGS sent)
PageStart ==
  /\ page = [NewPage EXCEPT !.response = TRUE, !.clickArmed = (impl = "index"),
                           !.settings = IF impl = "index"
                                        THEN Some(DEFAULT_SETTINGS_TS) ELSE None]
  /\ elems \in [Elements -> {NewElem(TRUE), NewElem(FALSE)}]

PageIdle == page = NewPage /\ elems = [e \in Elements |-> NewElem(FALSE)]

\* what the content scripts leave alone
outsidePage == <<impl, tabs, coordVars, smVars, legacyVars, startVars, probe>>

\* settings objects a content script may be sent
PageSettingsInputs ==
  IF impl = "index"
  THEN {DEFAULT_SETTINGS_TS, TsInRange,
        [DEFAULT_SETTINGS_TS EXCEPT !.threshold = Num(-150), !.ratio = Num(50),
                                    !.attack = Num(-5), !.release = Num(2000)]}
  ELSE {DEFAULT_SETTINGS, SettingsFull,
        [DEFAULT_SETTINGS EXCEPT !.threshold = -150, !.ratio = 50,
                                 !.attack = -5, !.release = 2000]}

\* this.settings.enabled as a condition
Enabled(settings) ==
  IF impl = "index" THEN ToBoolean(settings.enabled)[2] ELSE settings.enabled

PathFor(enabled) == IF enabled THEN "compressor" ELSE "bypass"

Larger(a, b) == IF a > b THEN a ELSE b

\* swaps after the connections of el became edges
Swapped(el, edges) ==
  IF el.edges = {} \/ edges = el.edges \/ el.swaps = 2 THEN el.swaps ELSE el.swaps + 1

\* variant: the new path is connected before the old one is disconnected
SwapConnectFirst(el, off, on) ==
  [el EXCEPT !.edges = (el.edges \ off) \cup {on},
             !.swaps = Swapped(el, (el.edges \ off) \cup {on}),
             !.peak = Larger(el.peak, Cardinality(el.edges \cup {on}))]

\* disconnect the connections off, then connect on
Swap(el, off, on) ==
  [el EXCEPT !.edges = (el.edges \ off) \cup {on},
             !.swaps = Swapped(el, (el.edges \ off) \cup {on}),
             !.peak = Larger(el.peak, Cardinality((el.edges \ off) \cup {on}))]

\* ---------------------------------------------------------------- content.js
\* configureCompressor(compressor)
configureCompressor(el, settings) ==
  [el EXCEPT !.params = Some([threshold |-> settings.threshold, ratio |-> settings.ratio,
                              attack |-> settings.attack, release |-> settings.release])]

\* setupAudioProcessing(mediaElement)
setupAudioProcessing(el, settings) ==
  IF el.attached THEN el
  ELSE Swap(configureCompressor([el EXCEPT !.attached = TRUE, !.sources = @ + 1,
                                           !.connected = Enabled(settings)], settings),
            {}, PathFor(Enabled(settings)))

\* updateAllCompressors, for one entry of mediaElements
updateAllCompressors(el, settings) ==
  IF ~el.attached THEN el
  ELSE LET nodes == configureCompressor(el, settings)
       IN IF Enabled(settings) /\ ~el.connected
          THEN Swap([nodes EXCEPT !.connected = TRUE], {"bypass"}, "compressor")
          ELSE IF ~Enabled(settings) /\ el.connected
               THEN Swap([nodes EXCEPT !.connected = FALSE], {"compressor"}, "bypass")
               ELSE nodes

\* initialize(): <<page, elems>> after it; new AudioContext() throws when fail
initialize(pg, es, fail) ==
  IF pg.initialized \/ fail THEN <<pg, es>>
  ELSE <<[pg EXCEPT !.context = TRUE, !.contexts = @ + 1, !.initialized = TRUE],
         [e \in Elements |-> IF es[e].inDoc
                             THEN setupAudioProcessing(es[e], pg.settings[1])
                             ELSE es[e]]>>

\* ------------------------------------------------------------------ index.ts
\* updateElementConnection(mediaElement, source)
updateElementConnection(el, settings) ==
  Swap(el, {"bypass", "compressor"}, PathFor(Enabled(settings)))

\* variant: elements are attached only once the gain node exists
attachCompressorWithGain(pg, el, throws) ==
  IF ~pg.context \/ ~pg.initialized \/ ~pg.gainNode \/ el.attached THEN el
  ELSE IF el.sources > 0 /\ throws THEN el
  ELSE updateElementConnection([el EXCEPT !.attached = TRUE, !.sources = @ + 1],
                               pg.settings[1])

\* attachCompressor(mediaElement); createMediaElementSource of an element that
\* already has a source node throws in some browsers (throws) and not in others
attachCompressor(pg, el, throws) ==
  IF ~pg.context \/ ~pg.initialized \/ el.attached THEN el
  ELSE IF el.sources > 0 /\ throws THEN el
  ELSE updateElementConnection([el EXCEPT !.attached = TRUE, !.sources = @ + 1],
                               pg.settings[1])

\* detachCompressor(mediaElement)
detachCompressor(el) ==
  IF el.attached
  THEN [el EXCEPT !.edges = {}, !.attached = FALSE, !.detached = TRUE]
  ELSE el

\* updateCompressorSettings(): <<page, elems>> after it
updateCompressorSettings(pg, es) ==
  IF ~pg.context \/ ~Enabled(pg.settings[1]) THEN <<pg, es>>
  ELSE <<[pg EXCEPT !.gainNode = TRUE,
                    !.params =
                      Some([threshold |-> MaxMin(-100, 0, pg.settings[1].threshold)[2],
                            ratio |-> MaxMin(1, 20, pg.settings[1].ratio)[2],
                            attack |-> MaxMin(0, 1000, pg.settings[1].attack)[2],
                            release |-> MaxMin(0, 1000, pg.settings[1].release)[2]])],
         [e \in Elements |-> IF es[e].attached /\ ~es[e].detached
                             THEN updateElementConnection(es[e], pg.settings[1])
                             ELSE es[e]]>>

\* initializeAudioContext(): <<page, elems>> after it
initializeAudioContext(pg, es, fail) ==
  IF fail THEN <<[pg EXCEPT !.initializationError = TRUE], es>>
  ELSE LET made == updateCompressorSettings(
                     [pg EXCEPT !.context = TRUE, !.contexts = @ + 1], es)
           ready == [made[1] EXCEPT !.initialized = TRUE]
       IN <<ready,
            [e \in Elements |-> IF made[2][e].inDoc
                                THEN attachCompressor(ready, made[2][e], FALSE)
                                ELSE made[2][e]]>>

\* variant: the listeners try at every gesture
MayInitializeAlways == TRUE

\* !this.initialized && !this.initializationError
MayInitialize == ~page.initialized /\ ~page.initializationError

\* ------------------------------------------------------------------- events
\* the handler has run: its result, the event and whether it called
\* new AudioContext()
Handled(result, event, tried) ==
  /\ page' = [result[1] EXCEPT !.last = event, !.tried = tried]
  /\ elems' = result[2]
  /\ UNCHANGED outsidePage

\* ---- the user clicks in the page: index.ts click listener ({ once: true })
PageClick(fail) ==
  /\ impl \in {"content", "index"} /\ page.contexts < MaxNodes
  /\ LET pg == [page EXCEPT !.gesture = TRUE, !.clickArmed = FALSE]
         tries == impl = "index" /\ page.clickArmed /\ MayInitialize
     IN Handled(IF tries THEN initializeAudioContext(pg, elems, fail)
                ELSE <<pg, elems>>, "click", tries)

\* ---- element e starts to play: index.ts play listener
PagePlay(e, fail) ==
  /\ impl \in {"content", "index"} /\ page.contexts < MaxNodes
  /\ elems[e].inDoc
  /\ LET pg == [page EXCEPT !.gesture = TRUE]
         tries == impl = "index" /\ MayInitialize
     IN Handled(IF tries THEN initializeAudioContext(pg, elems, fail)
                ELSE <<pg, elems>>, "play", tries)

\* ---- a SETTINGS_UPDATED message arrives
PageSettingsUpdated(settings) ==
  /\ impl \in {"content", "index"}
  /\ LET pg == [page EXCEPT !.settings = Some(settings)]
     IN Handled(IF impl = "index" THEN updateCompressorSettings(pg, elems)
                ELSE <<pg, [e \in Elements |->
                              updateAllCompressors(elems[e], settings)]>>,
                "SETTINGS_UPDATED", FALSE)

\* ---- the response to the initial request arrives, with settings or without:
\* ---- content.js requestInitialSettings 52-61, index.ts 137-145
PageInitialSettings(response, fail) ==
  /\ impl \in {"content", "index"} /\ page.contexts < MaxNodes
  /\ page.response
  /\ LET pg == [page EXCEPT !.response = FALSE,
                            !.settings = IF response = None THEN @ ELSE response]
         tries == impl = "content" /\ response # None /\ ~page.initialized
     IN Handled(IF response = None THEN <<pg, elems>>
                ELSE IF impl = "index" THEN updateCompressorSettings(pg, elems)
                ELSE initialize(pg, elems, fail),
                "initial", tries)

\* ---- element e is inserted into the document and the observer sees it
PageElementAdded(e, throws) ==
  /\ impl \in {"content", "index"}
  /\ ~elems[e].inDoc /\ elems[e].sources < MaxNodes
  /\ LET el == [elems[e] EXCEPT !.inDoc = TRUE]
     IN Handled(<<page,
                  [elems EXCEPT ![e] =
                     IF impl = "index" THEN attachCompressor(page, el, throws)
                     ELSE IF page.initialized
                          THEN setupAudioProcessing(el, page.settings[1])
                          ELSE el]>>,
                "added", FALSE)

\* ---- element e leaves the document, removed itself (direct) or inside a
\* ---- removed subtree; content.js does not observe removals
PageElementRemoved(e, direct) ==
  /\ impl \in {"content", "index"}
  /\ elems[e].inDoc
  /\ LET el == [elems[e] EXCEPT !.inDoc = FALSE]
     IN Handled(<<page,
                  [elems EXCEPT ![e] = IF impl = "index" /\ direct
                                       THEN detachCompressor(el) ELSE el]>>,
                "removed", FALSE)

\* ---- index.ts: the 'error' listener of an attached element
PageElementError(e) ==
  /\ impl = "index"
  /\ elems[e].attached
  /\ Handled(<<page, [elems EXCEPT ![e] = detachCompressor(elems[e])]>>,
             "error", FALSE)

\* ----------------------------------------------------- content.js: metering
\* what the analyzer and the compressor of a playing element read at a tick:
\* the level in dB (at least -60) and compressor.reduction (at most 0)
Reading(e) ==
  IF e = "e1" THEN [level |-> -20, reduction |-> -9]
  ELSE [level |-> -12, reduction |-> -3]

\* variant: a START while started sets up another interval
startLevelMonitoringAgain(pg) ==
  [pg EXCEPT !.isMonitoringLevel = TRUE, !.timers = @ + 1]

\* startLevelMonitoring()
startLevelMonitoring(pg) ==
  IF pg.isMonitoringLevel THEN pg
  ELSE [pg EXCEPT !.isMonitoringLevel = TRUE, !.timers = @ + 1]

\* variant: the interval is left running
stopLevelMonitoringNoClear(pg) ==
  IF ~pg.isMonitoringLevel THEN pg ELSE [pg EXCEPT !.isMonitoringLevel = FALSE]

\* stopLevelMonitoring(): clearInterval(this.levelMonitoringInterval) ends the
\* interval set up last
stopLevelMonitoring(pg) ==
  IF ~pg.isMonitoringLevel THEN pg
  ELSE [pg EXCEPT !.isMonitoringLevel = FALSE,
                  !.timers = IF @ > 0 THEN @ - 1 ELSE 0]

\* variant: paused elements are measured too
sendLevelDataAll(pg, es, playing) ==
  LET active == {e \in Elements : es[e].attached}
  IN IF ~pg.isPopupOpen \/ active = {} THEN <<>>
     ELSE <<[type |-> "METER_UPDATE",
             level |-> CHOOSE x \in {Reading(e).level : e \in active} :
                         \A e \in active : Reading(e).level <= x,
             reduction |-> CHOOSE x \in {-Reading(e).reduction : e \in active} :
                             \A e \in active : -Reading(e).reduction <= x]>>

\* variant: the reductions are compared as they are read, without Math.abs
sendLevelDataSigned(pg, es, playing) ==
  LET active == {e \in Elements : es[e].attached /\ e \in playing}
  IN IF ~pg.isPopupOpen \/ active = {} THEN <<>>
     ELSE <<[type |-> "METER_UPDATE",
             level |-> CHOOSE x \in {Reading(e).level : e \in active} :
                         \A e \in active : Reading(e).level <= x,
             reduction |-> 0]>>

\* sendLevelData() while the elements of playing are not paused: the messages
\* it sends; Math.abs of a reduction, which is at most 0, is its negation
sendLevelData(pg, es, playing) ==
  LET active == {e \in Elements : es[e].attached /\ e \in playing}
  IN IF ~pg.isPopupOpen \/ {e \in Elements : es[e].attached} = {} \/ active = {}
     THEN <<>>
     ELSE <<[type |-> "METER_UPDATE",
             level |-> CHOOSE x \in {Reading(e).level : e \in active} :
                         \A e \in active : Reading(e).level <= x,
             reduction |-> CHOOSE x \in {-Reading(e).reduction : e \in active} :
                             \A e \in active : -Reading(e).reduction <= x]>>

\* ---- popup.js DOMContentLoaded: the panel opens for the page and calls
\* ---- startLevelMonitoring(), which sends START_LEVEL_MONITORING to the tab
PanelOpen ==
  /\ impl = "content"
  /\ ~page.panel /\ Len(page.sent) < MaxNodes
  /\ page' = [page EXCEPT !.panel = TRUE, !.meter = None,
                          !.sent = Append(@, "START_LEVEL_MONITORING")]
  /\ UNCHANGED elems /\ UNCHANGED outsidePage

\* ---- popup.js unload listener: the panel closes and stopLevelMonitoring()
\* ---- sends STOP_LEVEL_MONITORING to the tab
PanelClose ==
  /\ impl = "content"
  /\ page.panel /\ Len(page.sent) < MaxNodes
  /\ page' = [page EXCEPT !.panel = FALSE,
                          !.sent = Append(@, "STOP_LEVEL_MONITORING")]
  /\ UNCHANGED elems /\ UNCHANGED outsidePage

\* popup.js handleMessages(message, sender) of the panel opened for tab tabId
handleMessages(meter, message, sender, tabId) ==
  IF sender = tabId /\ message.type = "METER_UPDATE"
  THEN Some([level |-> message.level, reduction |-> message.reduction, from |-> sender])
  ELSE meter

\* part_005 handleMessages(message): the sender is not looked at
handleMessagesPart005(meter, message, sender, tabId) ==
  IF message.type = "METER_UPDATE"
  THEN Some([level |-> message.level, reduction |-> message.reduction, from |-> sender])
  ELSE meter

\* ---- the open panel, of popup.js or of part_005, receives the METER_UPDATE
\* ---- that the content script of tab sender broadcast with runtime.sendMessage
PanelMeterUpdate(popup, sender) ==
  /\ impl = "content" /\ page.panel
  /\ LET message == [type |-> "METER_UPDATE", level |-> Reading("e1").level,
                     reduction |-> -Reading("e1").reduction]
         tabId == CHOOSE t \in TabIds : TRUE
     IN page' = [page EXCEPT !.meter =
                   IF popup = "popup.js"
                   THEN handleMessages(@, message, sender, tabId)
                   ELSE handleMessagesPart005(@, message, sender, tabId)]
  /\ UNCHANGED elems /\ UNCHANGED outsidePage

\* ---- onMessage START_LEVEL_MONITORING / STOP_LEVEL_MONITORING, for a
\* ---- message in flight; messages of different panels arrive in any order
PageMonitoring(type) ==
  /\ impl = "content"
  /\ type = "START_LEVEL_MONITORING" => page.starts < MaxNodes
  /\ \E i \in 1..Len(page.sent) :
       /\ page.sent[i] = type
       /\ \A j \in 1..(i - 1) : page.sent[j] # type
       /\ page' = IF type = "START_LEVEL_MONITORING"
                  THEN startLevelMonitoring([page EXCEPT !.isPopupOpen = TRUE,
                                                         !.starts = @ + 1, !.last = type,
                                                         !.sent = RemoveAt(@, i)])
                  ELSE stopLevelMonitoring([page EXCEPT !.isPopupOpen = FALSE,
                                                        !.starts = 0, !.last = type,
                                                        !.sent = RemoveAt(@, i)])
  /\ UNCHANGED elems /\ UNCHANGED outsidePage

\* ---- an interval set up by startLevelMonitoring fires
MeterTick(playing) ==
  /\ impl = "content"
  /\ page.timers > 0
  /\ page' = [page EXCEPT !.last = "tick",
                          !.tick = Some([playing |-> playing, listening |-> page.starts > 0,
                                         sent |-> sendLevelData(page, elems, playing)])]
  /\ UNCHANGED elems /\ UNCHANGED outsidePage

PageNext ==
  \/ \E fail \in BOOLEAN : PageClick(fail)
  \/ \E e \in Elements, fail \in BOOLEAN : PagePlay(e, fail)
  \/ \E settings \in PageSettingsInputs : PageSettingsUpdated(settings)
  \/ \E settings \in PageSettingsInputs, fail \in BOOLEAN :
        PageInitialSettings(Some(settings), fail)
  \/ PageInitialSettings(None, FALSE)
  \/ \E e \in Elements, throws \in BOOLEAN : PageElementAdded(e, throws)
  \/ \E e \in Elements, direct \in BOOLEAN : PageElementRemoved(e, direct)
  \/ \E e \in Elements : PageElementError(e)

\* ================================================== validation, in isolation
\* values a field of an incoming settings object may hold
FieldInputs(lo, hi) ==
  {Undefined, Text, Num(0), Num(lo - 50), Num(lo), Num(hi), Num(hi + 7)}
EnabledInputs == {Bool(TRUE), Bool(FALSE), Undefined}

ValidateInputs ==
  [enabled : EnabledInputs, threshold : FieldInputs(-100, 0), ratio : FieldInputs(1, 20),
   attack : FieldInputs(0, 100), release : {Num(50), Num(0), Num(2000)},
   gain : {Num(3), Undefined, Num(-21)}]

NoProbe == [stage |-> "none", input |-> None, once |-> None, twice |-> None]

ValidateInit ==
  /\ impl = "validate"
  /\ \E s \in ValidateInputs : probe = [NoProbe EXCEPT !.stage = "input", !.input = Some(s)]

\* ---- validateSettings(settings)
ValidateOnce ==
  /\ impl = "validate" /\ probe.stage = "input"
  /\ probe' = [probe EXCEPT !.stage = "once", !.once = Some(validateSettings(probe.input[1]))]
  /\ UNCHANGED <<impl, tabs, coordVars, smVars, legacyVars, startVars, pageVars>>

\* ---- validateSettings(validateSettings(settings))
ValidateTwice ==
  /\ impl = "validate" /\ probe.stage = "once"
  /\ probe' = [probe EXCEPT !.stage = "twice", !.twice = Some(validateSettings(probe.once[1]))]
  /\ UNCHANGED <<impl, tabs, coordVars, smVars, legacyVars, startVars, pageVars>>

ValidateNext == ValidateOnce \/ ValidateTwice

\* ============================================================ specification
CoordIdle ==
  /\ siteSettings = EmptyDoc /\ storageDoc = EmptyDoc
  /\ removedQ = {} /\ req = <<>> /\ pushQ = <<>> /\ reply = NoReply
  /\ lastWriter = [k \in PopupKeys |-> 0]

TabsInit == tabs \in [TabIds -> {NewTab(u) : u \in TabUrls}]
TabsIdle == tabs = [t \in TabIds |-> NewTab(UrlHttps)]

Init ==
  \/ /\ impl = "coordinator" /\ TabsInit /\ CoordInit /\ SmIdle /\ LegacyIdle
     /\ StartIdle /\ PageIdle /\ probe = NoProbe
  \/ /\ impl = "manager" /\ TabsInit /\ CoordIdle /\ SmInit /\ LegacyIdle
     /\ StartIdle /\ PageIdle /\ probe = NoProbe
  \/ /\ impl = "legacy" /\ TabsInit /\ CoordIdle /\ SmIdle /\ LegacyInit
     /\ StartIdle /\ PageIdle /\ probe = NoProbe

Next == CoordNext \/ SmNext \/ LegacyNext

Spec == Init /\ [][Next]_vars

\* validateSettings applied once and twice to every input of ValidateInputs
InitValidate ==
  /\ ValidateInit /\ TabsIdle /\ CoordIdle /\ SmIdle /\ LegacyIdle /\ StartIdle
  /\ PageIdle

SpecValidate == InitValidate /\ [][ValidateNext]_vars

\* the same, in runs where a storage.local.set of the coordinator may reject
NextFailure == Next \/ \E i \in 1..MaxReq : SaveReject(i)

SpecFailure == Init /\ [][NextFailure]_vars

\* the start of a background script: part_003 with its loads in flight, or
\* background.js, which loads in onInstalled only
InitStartup ==
  \/ /\ impl = "coordinator" /\ TabsInit /\ CoordStart /\ SmIdle /\ LegacyIdle
     /\ PageIdle /\ probe = NoProbe
  \/ /\ impl = "legacy" /\ TabsInit /\ CoordIdle /\ SmIdle /\ LegacyInit
     /\ StartIdle /\ PageIdle /\ probe = NoProbe

\* the messages of a popup and of a page that reach the starting script
CoordStartNext ==
  \/ \E k \in PopupKeys : HandleGetSettings(k)
  \/ \E t \in TabIds : HandleUpdateSettings(PopupKeyOf(t), t, Some(SettingsFull))
  \/ \E t \in TabIds : HandleResetSettings(PopupKeyOf(t), t)
  \/ \E i \in 1..MaxReq : SaveResolve(i)
  \/ \E p \in 1..MaxReq : PushDelivered(p)
  \/ \E p \in 1..MaxReq : PushFailed(p)
  \/ \E t \in TabIds : ContentScriptStart(t)
  \/ \E t \in TabIds : HandleRequestInitialSettings(t)
  \/ \E t \in TabIds : InitialSettingsDelivered(t)

NextStartup == CoordStartNext \/ StartNext \/ LegacyNext

SpecStartup == InitStartup /\ [][NextStartup]_vars

\* one page with the content script of either generation
InitPage ==
  /\ impl \in {"content", "index"}
  /\ PageStart
  /\ TabsIdle /\ CoordIdle /\ SmIdle /\ LegacyIdle /\ StartIdle /\ probe = NoProbe

SpecPage == InitPage /\ [][PageNext]_vars

\* a page with content.js, its media elements and the level meter of a popup
InitMeter ==
  /\ impl = "content"
  /\ PageStart
  /\ TabsIdle /\ CoordIdle /\ SmIdle /\ LegacyIdle /\ StartIdle /\ probe = NoProbe

SpecMeter ==
  InitMeter
  /\ [][\/ \E settings \in PageSettingsInputs, fail \in BOOLEAN :
            PageInitialSettings(Some(settings), fail)
        \/ \E e \in Elements, throws \in BOOLEAN : PageElementAdded(e, throws)
        \/ PanelOpen
        \/ PanelClose
        \/ \E popup \in {"popup.js", "part_005"}, sender \in TabIds \cup {2} :
            PanelMeterUpdate(popup, sender)
        \/ \E type \in {"START_LEVEL_MONITORING", "STOP_LEVEL_MONITORING"} :
            PageMonitoring(type)
        \/ \E playing \in SUBSET Elements : MeterTick(playing)]_vars

\* the SettingsManager with the tabs of two sites, one of them naming the
\* other site in its address
InitNotify ==
  /\ impl = "manager"
  /\ tabs \in [TabIds -> {NewTab(u) : u \in {UrlHttps, UrlHttp, UrlRef}}]
  /\ CoordIdle /\ SmInit /\ LegacyIdle /\ StartIdle /\ PageIdle /\ probe = NoProbe

SpecNotify == InitNotify /\ [][SmNext]_vars

\* part_003 with storage writes that resolve or reject, and with the promises
\* of storage.local.set and tabs.sendMessage settling in the end
InitAnswer ==
  /\ impl = "coordinator" /\ TabsIdle /\ CoordIdle /\ SmIdle /\ LegacyIdle
  /\ StartIdle /\ PageIdle /\ probe = NoProbe

SpecAnswer ==
  /\ InitAnswer
  /\ [][\/ \E t \in TabIds : HandleGetSettings(PopupKeyOf(t))
        \/ \E t \in TabIds : \E id \in {0, t} :
             HandleUpdateSettings(PopupKeyOf(t), id, Some(SettingsFull))
        \/ \E t \in TabIds : \E k \in {"", PopupKeyOf(t)} : HandleResetSettings(k, t)
        \/ \E i \in 1..MaxReq : SaveResolve(i)
        \/ \E i \in 1..MaxReq : SaveReject(i)
        \/ \E p \in 1..MaxReq : PushDelivered(p)
        \/ \E p \in 1..MaxReq : PushFailed(p)
        \/ \E t \in TabIds : ContentScriptStart(t)
        \/ \E t \in TabIds : HandleRequestInitialSettings(t)]_vars
  /\ WF_vars(\E i \in 1..MaxReq : SaveResolve(i) \/ SaveReject(i))
  /\ WF_vars(\E p \in 1..MaxReq : PushDelivered(p) \/ PushFailed(p))

TypeOK == Len(req) <= MaxReq /\ Len(smCalls) <= MaxReq


\* ================================================================== claims
Reachable(t) == tabs[t].open /\ tabs[t].ready

\* the step in which the push of an UPDATE_SETTINGS to an unreachable tab fails
C1_Step ==
  \A i \in 1..Len(req) :
    (req[i].type = "UPDATE_SETTINGS" /\ req[i].pc = "push" /\ req'[i].pc = "done"
       /\ ~Reachable(req[i].tabId))
    => /\ req'[i].resp = [NoResp EXCEPT !.sent = TRUE, !.success = TRUE, !.warning = TRUE]
       /\ siteSettings' = siteSettings
       /\ storageDoc' = storageDoc
\* what GET_SETTINGS returns for the key of an UPDATE_SETTINGS answered with a
\* warning, as long as no later request has written the key
C1_Kept ==
  \A i \in 1..Len(req) :
    (req[i].type = "UPDATE_SETTINGS" /\ req[i].pc = "done" /\ req[i].resp.warning
       /\ lastWriter[req[i].key] = i)
    => GetSettingsResponse(req[i].key)
         = SettingsResp(Spread(DEFAULT_SETTINGS, req[i].settings[1]))
\* C1: when the SETTINGS_UPDATED push of an UPDATE_SETTINGS fails (tab closed
\* or no listener) the request is answered {success: true} with a warning and
\* neither the cache nor the stored document is touched by that step; and as
\* long as no later request has written the key, GET_SETTINGS(key) returns the
\* written settings (merged over the defaults).
C1_UpdateSurvivesFailedPush == [][C1_Step]_vars /\ []C1_Kept

C1_Witness ==
  \E i \in 1..Len(req) :
    /\ req[i].type = "UPDATE_SETTINGS" /\ req[i].pc = "done"
    /\ req[i].resp.success /\ req[i].resp.warning
    /\ ~tabs[req[i].tabId].open
    /\ reply.type = "GET_SETTINGS" /\ reply.key = req[i].key /\ reply.seen = i
    /\ reply.resp.settings = Some(Spread(DEFAULT_SETTINGS, req[i].settings[1]))

\* C2: a REQUEST_INITIAL_SETTINGS from a page whose key was last written by an
\* UPDATE_SETTINGS with settings s is answered with s merged over the
\* defaults: every field of s as saved, every other field from the defaults.
C2_InitialSettingsAreSaved ==
  (reply.type = "REQUEST_INITIAL_SETTINGS" /\ reply.seen > 0
     /\ req[reply.seen].type = "UPDATE_SETTINGS")
  => /\ reply.resp.error = ""
     /\ reply.resp.settings # None
     /\ DOMAIN reply.resp.settings[1] = DOMAIN DEFAULT_SETTINGS
     /\ \A f \in DOMAIN DEFAULT_SETTINGS :
          reply.resp.settings[1][f] =
            IF f \in DOMAIN req[reply.seen].settings[1]
            THEN req[reply.seen].settings[1][f]
            ELSE DEFAULT_SETTINGS[f]

C2_Witness ==
  /\ reply.type = "REQUEST_INITIAL_SETTINGS" /\ reply.seen > 0
  /\ req[reply.seen].type = "UPDATE_SETTINGS"
  /\ req[reply.seen].settings = Some(SettingsPartial)
  /\ reply.key = "a.com"
  /\ reply.resp.settings[1].ratio = DEFAULT_SETTINGS.ratio
  /\ reply.resp.settings[1].threshold = SettingsPartial.threshold

\* what getSettings(domain) of the SettingsManager returns when called now
\* and not overtaken by another call
SmGetNow(domain) ==
  IF domain \in DOMAIN smCache THEN smCache[domain]
  ELSE IF domain \in DOMAIN smStorage THEN smStorage[domain]
  ELSE DEFAULT_SETTINGS_TS

\* history: no saveSettings or clearDomainSettings for the domain, and no
\* record of an earlier run
SmNoStoredRecord(domain) ==
  /\ domain \notin DOMAIN smStorage
  /\ \A c \in 1..Len(smCalls) :
       smCalls[c].op \in {"save", "clear"} => smCalls[c].domain # domain

\* C3: a key without stored record reads as exactly the default settings,
\* without error, whatever happened to other keys: GET_SETTINGS of the
\* coordinator and getSettings of the SettingsManager.
C3_UnknownKeyGivesDefaults ==
  /\ \A k \in PopupKeys :
       NoStoredRecord(k) => GetSettingsResponse(k) = SettingsResp(DEFAULT_SETTINGS)
  /\ (reply.type = "GET_SETTINGS" /\ reply.seen = -1)
       => reply.resp = SettingsResp(DEFAULT_SETTINGS)
  /\ \A d \in SmDomains : SmNoStoredRecord(d) => SmGetNow(d) = DEFAULT_SETTINGS_TS
  /\ \A c \in 1..Len(smCalls) :
       (smCalls[c].op = "get" /\ smCalls[c].pc = "done"
          /\ SmNoStoredRecord(smCalls[c].domain))
       => smCalls[c].result = Some(DEFAULT_SETTINGS_TS)

C3_Witness ==
  /\ reply.type = "GET_SETTINGS" /\ reply.seen = -1 /\ reply.key # ""
  /\ NoStoredRecord(reply.key)
  /\ \E i \in 1..Len(req) :
       req[i].type = "UPDATE_SETTINGS" /\ req[i].pc = "done" /\ req[i].key # reply.key

\* the documented range of a numeric field
RangeOf(f) ==
  CASE f = "threshold" -> <<-100, 0>>
    [] f = "ratio" -> <<1, 20>>
    [] f = "attack" -> <<0, 100>>
    [] f = "release" -> <<0, 1000>>
    [] OTHER -> <<-20, 20>>
NumericFields == {"threshold", "ratio", "attack", "release", "gain"}

\* a saveSettings call that completed and was not followed or overlapped by
\* another call for its domain
SmSettled(c) ==
  /\ smCalls[c].op = "save" /\ smCalls[c].pc = "done"
  /\ smEvents = <<>>
  /\ \A o \in 1..Len(smCalls) : (o # c /\ smCalls[o].domain = smCalls[c].domain) => o < c /\ smCalls[o].pc = "done"

\* C4: after put(k, s) has completed, get(k) returns every numeric field of s
\* clamped into its documented range: unchanged when in range (boundary
\* values such as 0 included), the nearest bound otherwise.
C4_PutGetClamps ==
  \A c \in 1..Len(smCalls) :
    SmSettled(c) =>
      \A f \in NumericFields :
        smCalls[c].input[1][f][1] = "number" =>
          SmGetNow(smCalls[c].domain)[f]
            = MaxMin(RangeOf(f)[1], RangeOf(f)[2], smCalls[c].input[1][f])

\* C5: after put(k, s), every field of s that was missing or non-numeric reads
\* as that field's default (enabled included, default true), and every
\* numeric field lies in its range.
C5_MissingFieldsGetDefaults ==
  \A c \in 1..Len(smCalls) :
    SmSettled(c) =>
      /\ \A f \in NumericFields :
           /\ smCalls[c].input[1][f][1] # "number"
                => SmGetNow(smCalls[c].domain)[f] = DEFAULT_SETTINGS_TS[f]
           /\ SmGetNow(smCalls[c].domain)[f][2] >= RangeOf(f)[1]
           /\ SmGetNow(smCalls[c].domain)[f][2] <= RangeOf(f)[2]
      /\ smCalls[c].input[1].enabled[1] # "boolean"
           => SmGetNow(smCalls[c].domain).enabled = DEFAULT_SETTINGS_TS.enabled

\* C6: validateSettings(validateSettings(s)) = validateSettings(s)
C6_ValidateIdempotent ==
  probe.stage = "twice" => probe.twice = probe.once

\* C7: when two UPDATE_SETTINGS of one key were received, s1 before s2, and
\* both are fully handled, the cache, the stored document and the notified
\* page hold s2.
C7_LastWriteWins ==
  \A i, j \in 1..Len(req) :
    (/\ i < j /\ lastWriter[req[j].key] = j
     /\ req[i].type = "UPDATE_SETTINGS" /\ req[j].type = "UPDATE_SETTINGS"
     /\ req[i].key = req[j].key
     /\ \A o \in 1..Len(req) : req[o].pc = "done")
    => /\ siteSettings[req[j].key] = req[j].settings[1]
       /\ req[j].key \in DOMAIN storageDoc
       /\ storageDoc[req[j].key] = req[j].settings[1]
       /\ (Reachable(req[j].tabId) /\ ~req[j].resp.warning)
            => tabs[req[j].tabId].settings = req[j].settings

\* C8: after RESET_SETTINGS the entry of the key is gone from the cache, the
\* request is answered with the defaults, and as long as no later request
\* has written the key GET_SETTINGS returns exactly the defaults: in the key
\* based coordinator and in the activeDomain based background.
C8_ResetRemovesAndPushesDefaults ==
  /\ \A i \in 1..Len(req) :
       (req[i].type = "RESET_SETTINGS" /\ lastWriter[req[i].key] = i)
       => /\ req[i].key \notin DOMAIN siteSettings
          /\ GetSettingsResponse(req[i].key) = SettingsResp(DEFAULT_SETTINGS)
          /\ req[i].pc = "done" => req[i].resp.settings = Some(DEFAULT_SETTINGS)
  /\ (lgReply.type = "RESET_SETTINGS" /\ lgReply.resp.error = "")
       => /\ lgReply.resp.settings = Some(DEFAULT_SETTINGS)
          /\ LegacySettingsOf(lgReply.key) = DEFAULT_SETTINGS
          /\ lgReply.key \notin DOMAIN domainSettings

\* the steps of the tabs.onRemoved listener of tab t and of its storage write
C9_Step ==
  \A t \in TabIds :
    /\ (t \in removedQ /\ t \notin removedQ')
         => /\ TabKey(t) \notin DOMAIN siteSettings'
            /\ TabKey(t) \in DOMAIN siteSettings
                 => /\ Len(req') = Len(req) + 1
                    /\ req'[Len(req')].pc = "save"
                    /\ req'[Len(req')].doc # None
                    /\ TabKey(t) \notin DOMAIN req'[Len(req')].doc[1]
    /\ \A i \in 1..Len(req) :
         (req[i].type = "TAB_REMOVED" /\ req[i].tabId = t
            /\ req[i].pc = "save" /\ req'[i].pc = "done")
         => TabKey(t) \notin DOMAIN storageDoc'
\* C9: the tabs.onRemoved listener of tab n deletes the entry of tab-n from
\* the cache, and the storage write it issues leaves the stored document
\* without that entry.
C9_TabCloseDeletesSyntheticKey == [][C9_Step]_vars

C9_Witness ==
  \E i, j \in 1..Len(req) :
    /\ req[i].type = "UPDATE_SETTINGS" /\ req[i].pc = "done" /\ req[i].key = TabKey(req[j].tabId)
    /\ req[j].type = "TAB_REMOVED" /\ req[j].pc = "done" /\ req[j].existed /\ i < j
    /\ TabKey(req[j].tabId) \notin DOMAIN siteSettings
    /\ TabKey(req[j].tabId) \notin DOMAIN storageDoc

\* the documented rule of the key resolver, "" standing for null
ResolverRule(resolve(_)) ==
  \A u \in AllUrls :
    resolve(u) = IF u.parses /\ u.protocol \in {"http:", "https:"} THEN u.hostname
                 ELSE IF u.parses /\ u.protocol = "file:" THEN u.href
                 ELSE ""
\* C10: the resolver maps http/https addresses to the hostname, file:
\* addresses to the full address and everything else to null; and a caller
\* that got null uses tab-<id>, so the key used is never null: in the popup
\* and in the lookup of REQUEST_INITIAL_SETTINGS.
C10_KeyNeverNull ==
  /\ ResolverRule(getKeyFromUrl)
  /\ ResolverRule(contentKey)
  /\ \A u \in AllUrls, t \in TabIds : settingsKey(u, t) # ""
  /\ reply.type = "REQUEST_INITIAL_SETTINGS" => reply.key # ""

\* C11: whenever an UPDATE_SETTINGS for (k, s) has been answered success and
\* no later request has written k, the stored document holds s under k, also
\* when a storage write was rejected.
C11_SuccessMeansStored ==
  \A i \in 1..Len(req) :
    (req[i].type = "UPDATE_SETTINGS" /\ req[i].pc = "done" /\ req[i].resp.success
       /\ lastWriter[req[i].key] = i)
    => /\ req[i].key \in DOMAIN storageDoc
       /\ storageDoc[req[i].key] = req[i].settings[1]

\* C12: a record saved before the background restarted, and written by no
\* request since, is what GET_SETTINGS answers for its site once no load is in
\* flight, and a later update of another site leaves it in the stored document.
C12_SavedRecordsSurviveRestart ==
  /\ (impl = "legacy" /\ ~lgLoad)
     => /\ \A d \in DOMAIN lgSaved :
             lgWrites = <<>> => d \in DOMAIN domainStore /\ domainStore[d] = lgSaved[d]
        /\ (lgReply.type = "GET_SETTINGS" /\ lgReply.key \in DOMAIN lgSaved)
           => LegacySettingsOf(lgReply.key) = lgSaved[lgReply.key]
  /\ (impl = "coordinator" /\ loads = <<>> /\ bootEvents = {})
     => \A k \in DOMAIN savedDoc :
          lastWriter[k] = 0
          => /\ GetSettingsResponse(k).settings = Some(Spread(DEFAULT_SETTINGS, savedDoc[k]))
             /\ (\A i \in 1..Len(req) : req[i].pc # "save")
                => k \in DOMAIN storageDoc /\ storageDoc[k] = savedDoc[k]

\* C13: in one start of the background script a load assigns the cache at most
\* once.
C13_LoadedOnce == loadCount <= 1

\* the record the store holds for key, as a page is given it
StoredFor(key) ==
  IF key \in DOMAIN siteSettings
  THEN Spread(DEFAULT_SETTINGS, siteSettings[key]) ELSE DEFAULT_SETTINGS

\* the page of tab t has its initial settings and no message is on its way to it
PageSettled(t) ==
  /\ tabs[t].open /\ tabs[t].ready /\ ~tabs[t].ris /\ tabs[t].initial = None
  /\ contentKey(tabs[t].url) # ""
  /\ pushQ = <<>>
  /\ \A i \in 1..Len(req) : req[i].pc = "done"

\* C14: once the response to REQUEST_INITIAL_SETTINGS and every SETTINGS_UPDATED
\* push to a page have been delivered and no request is in flight, the page holds
\* the store's record for its key.
C14_PageConverges ==
  \A t \in TabIds :
    (impl = "coordinator" /\ PageSettled(t))
    => /\ tabs[t].settings # None
       /\ Spread(DEFAULT_SETTINGS, tabs[t].settings[1]) = StoredFor(contentKey(tabs[t].url))

\* C15: every attached element has exactly one of the bypass path and the
\* compressor path connected to the output, and at no moment of a re-wiring,
\* after any number of toggles, were two output paths of an element connected.
C15_OneOutputPath ==
  \A e \in Elements :
    /\ elems[e].peak <= 1
    /\ elems[e].attached => Cardinality(elems[e].edges) = 1

\* an attached element that went from one path to the other and back
C15_Witness ==
  \E e \in Elements :
    elems[e].attached /\ elems[e].swaps = 2 /\ Cardinality(elems[e].edges) = 1

\* C16: after a SETTINGS_UPDATED message has been handled every attached
\* element is on the compressor path when the received settings are enabled
\* and on the bypass path when they are not.
C16_RoutingFollowsEnabled ==
  (impl \in {"content", "index"} /\ page.last = "SETTINGS_UPDATED")
  => \A e \in Elements :
       elems[e].attached => elems[e].edges = {PathFor(Enabled(page.settings[1]))}

\* C17: an element that was detached is not in the attached table again and
\* has no second source node.
C17_DetachedStaysDetached ==
  \A e \in Elements :
    elems[e].detached => ~elems[e].attached /\ elems[e].sources <= 1

\* C18: an AudioContext exists only after a click or a play event, and an
\* element is attached only when the pipeline exists.
C18_NoContextBeforeGesture ==
  /\ page.contexts > 0 => page.gesture
  /\ \A e \in Elements : elems[e].attached => page.context

\* C19: a page constructs at most one AudioContext.
C19_OneContext == page.contexts <= 1

\* the click created the pipeline and a later play event did not try again
C19_Witness ==
  /\ impl = "index" /\ page.contexts = 1
  /\ ~page.clickArmed /\ page.last = "play" /\ ~page.tried

\* C20: a click or play event handled while the pipeline does not exist tries
\* to create it, also after an attempt that failed, and after a successful
\* attempt the elements in the document are attached.
C20_RetryAfterFailure ==
  (impl = "index" /\ page.last \in {"click", "play"})
  => /\ ~page.initialized => page.tried
     /\ (page.initialized /\ page.tried)
        => \A e \in Elements : elems[e].inDoc => elems[e].attached

\* values a compressor node accepts, times in ms
NodeRange(p) ==
  /\ p.threshold \in -100..0 /\ p.ratio \in 1..20
  /\ p.attack \in 0..1000 /\ p.release \in 0..1000

\* C21: whatever settings object the page received, every threshold, ratio,
\* attack and release written to a compressor node lies in the range of the node.
C21_WrittenValuesClamped ==
  /\ page.params # None => NodeRange(page.params[1])
  /\ \A e \in Elements : elems[e].params # None => NodeRange(elems[e].params[1])

\* the attached elements that played at the last tick
TickActive == {e \in page.tick[1].playing : elems[e].attached}

\* C22: a tick at which no attached element plays sends no METER_UPDATE.
C22_NoPlayingNoMessage ==
  (page.last = "tick" /\ TickActive = {}) => page.tick[1].sent = <<>>

\* a tick while the popup listens and an attached element is paused
C22_Witness ==
  /\ page.last = "tick" /\ TickActive = {} /\ page.tick[1].listening
  /\ \E e \in Elements : elems[e].attached

\* C23: a METER_UPDATE is sent only while a START_LEVEL_MONITORING has been
\* handled and no STOP_LEVEL_MONITORING since, and outside of that no sampling
\* timer runs.
C23_NoTrafficWithoutListener ==
  /\ (page.tick # None /\ page.tick[1].sent # <<>>) => page.tick[1].listening
  /\ page.starts = 0 => page.timers = 0

\* a STOP handled after a tick that sent a message
C23_Witness ==
  /\ page.last = "STOP_LEVEL_MONITORING"
  /\ page.tick # None /\ page.tick[1].sent # <<>>

\* after a START one timer runs, after a STOP none, and never two
C24_Timers ==
  /\ page.timers <= 1
  /\ page.last = "START_LEVEL_MONITORING" => page.timers = 1
  /\ page.last = "STOP_LEVEL_MONITORING" => page.timers = 0 /\ ~page.isMonitoringLevel

\* a START while started creates no timer; a STOP with no START before it
\* changes nothing
C24_Step ==
  /\ (page.starts > 0 /\ page'.last = "START_LEVEL_MONITORING")
     => page'.timers = page.timers
  /\ (page.starts = 0 /\ page'.last = "STOP_LEVEL_MONITORING"
        /\ Len(page'.sent) < Len(page.sent))
     => [page' EXCEPT !.last = page.last, !.sent = page.sent] = page

\* C24: for every sequence of START_LEVEL_MONITORING and STOP_LEVEL_MONITORING
\* at most one sampling timer exists, a START while started creates no second
\* timer, a STOP without a START changes nothing, and after a STOP no timer runs.
C24_StartStopIdempotent == []C24_Timers /\ [][C24_Step]_vars

\* a second START in a row, with one timer
C24_Witness ==
  page.last = "START_LEVEL_MONITORING" /\ page.starts = 2 /\ page.timers = 1

\* C25: a tick with at least one playing attached element sends exactly one
\* METER_UPDATE, with the largest level and the largest absolute reduction of
\* the playing elements; paused elements count for neither.
C25_MaxOverPlaying ==
  (page.last = "tick" /\ page.tick[1].listening /\ TickActive # {})
  => /\ Len(page.tick[1].sent) = 1
     /\ \E e \in TickActive : page.tick[1].sent[1].level = Reading(e).level
     /\ \A e \in TickActive : page.tick[1].sent[1].level >= Reading(e).level
     /\ \E e \in TickActive : page.tick[1].sent[1].reduction = -Reading(e).reduction
     /\ \A e \in TickActive : page.tick[1].sent[1].reduction >= -Reading(e).reduction

\* both elements attached, the louder one paused at the tick
C25_Witness ==
  /\ page.last = "tick" /\ page.tick[1].listening /\ TickActive = {"e1"}
  /\ \A e \in Elements : elems[e].attached
  /\ Len(page.tick[1].sent) = 1

\* the record of key in document doc, None when it has none
RecordOf(doc, key) == IF key \in DOMAIN doc THEN Some(doc[key]) ELSE None

\* a step that handles a request for one key, or completes its storage write,
\* leaves the records of all other keys as they were
C26_Step ==
  /\ (impl = "coordinator" /\ loads' = loads)
     => \A k \in PopupKeys \cup DOMAIN savedDoc :
          lastWriter'[k] = lastWriter[k]
          => RecordOf(siteSettings', k) = RecordOf(siteSettings, k)
  /\ \A i \in 1..Len(req) :
       (impl = "coordinator" /\ req[i].pc = "save" /\ req'[i].pc # "save")
       => \A k \in (PopupKeys \cup DOMAIN savedDoc) \ {req[i].key} :
            RecordOf(storageDoc', k) = RecordOf(storageDoc, k)

\* C26: handling UPDATE_SETTINGS(k), RESET_SETTINGS(k) or the tab-close cleanup
\* of k leaves the record of every other key unchanged in the cache and in the
\* stored document, also while a loadSettingsFromStorage is in flight.
C26_OtherKeysUntouched == [][C26_Step]_vars

\* every call of the SettingsManager has returned and every storage change
\* has been delivered to the onChanged listener
SmQuiet ==
  /\ smEvents = <<>>
  /\ \A c \in 1..Len(smCalls) : smCalls[c].pc = "done"

\* C27: once every getSettings and saveSettings call of a key has completed,
\* a further getSettings of the key returns the value of the last completed
\* save, for every interleaving of the calls at their storage operations.
C27_CacheNeverStale ==
  (impl = "manager" /\ SmQuiet)
  => \A c \in 1..Len(smCalls) :
       (/\ smCalls[c].op = "save"
        /\ \A o \in 1..Len(smCalls) :
             (o # c /\ smCalls[o].domain = smCalls[c].domain) => smCalls[o].op = "get")
       => SmGetNow(smCalls[c].domain) = smCalls[c].value[1]

\* C28: once tab n is closed, its tab-removed event is handled and every
\* request in flight is fully handled, neither the cache nor the stored
\* document has an entry for tab-n, for every interleaving of UPDATE_SETTINGS
\* of tab-n with the event.
C28_NoSyntheticKeyOutlivesTab ==
  \A t \in TabIds :
    (/\ impl = "coordinator"
     /\ ~tabs[t].open /\ t \notin removedQ
     /\ pushQ = <<>>
     /\ \A i \in 1..Len(req) : req[i].pc = "done")
    => /\ TabKey(t) \notin DOMAIN siteSettings
       /\ TabKey(t) \notin DOMAIN storageDoc

\* the step in which the coordinator answers REQUEST_INITIAL_SETTINGS of tab t
AnswersInitial(t) == tabs[t].ris /\ ~tabs'[t].ris /\ tabs'[t].open

\* what the page of tab t is to receive: the settings saved under the key of
\* the popup of the tab, over the defaults
PopupSettingsOf(t) ==
  IF PopupKeyOf(t) \in DOMAIN siteSettings
  THEN Spread(DEFAULT_SETTINGS, siteSettings[PopupKeyOf(t)])
  ELSE DEFAULT_SETTINGS

C29_Step ==
  \A t \in TabIds :
    (impl = "coordinator" /\ AnswersInitial(t))
    => /\ reply'.key = PopupKeyOf(t)
       /\ tabs'[t].initial = Some(SettingsResp(PopupSettingsOf(t)))

\* C29: for every tab address the key the coordinator looks up when it
\* answers the tab's REQUEST_INITIAL_SETTINGS is the key under which the popup
\* saves settings for the tab, so the page receives what the popup saved,
\* also under a synthetic tab-<id> key.
C29_PopupAndCoordinatorAgree == [][C29_Step]_vars

\* the step in which notifyTabs of call c sends its messages
Notifies(c) ==
  /\ c \in 1..Len(smCalls) /\ smCalls[c].pc = "notify"
  /\ smCalls'[c].pc = "done"

C30_Step ==
  \A c \in 1..MaxReq, t \in TabIds :
    (impl = "manager" /\ Notifies(c) /\ tabs'[t] # tabs[t])
    => tabs[t].url.hostname = smCalls[c].domain

\* C30: a SETTINGS_UPDATED carrying the settings of key k is sent only to tabs
\* whose own site key is k, never to a tab of another site whose address
\* merely contains k.
C30_NotifiesOnlyOwnSite == [][C30_Step]_vars

\* new URL(tab.url).hostname of the page shown in tab t
PageDomain(t) == IF tabs[t].url.parses THEN tabs[t].url.hostname ELSE ""

\* C31: whenever the activeDomain based background has handled a
\* GET_SETTINGS, UPDATE_SETTINGS or RESET_SETTINGS of the popup for tab
\* activeTabId, the domain it used is the hostname of the page shown in that
\* tab, for every interleaving of the activation, the tab lookup and the
\* request.
C31_DomainMatchesTab ==
  (impl = "legacy" /\ lgReply.type # "" /\ lgReply.tabId # 0)
  => lgReply.key = PageDomain(lgReply.tabId)

\* C32: when a panel is open for the page and every monitoring message sent
\* by the panels has been handled, the sampling loop runs and sends to the
\* panel, whichever order the STOP of an old panel and the START of the new
\* panel arrived in.
C32_MeteringWhilePanelOpen ==
  (impl = "content" /\ page.panel /\ page.sent = <<>>)
  => page.isPopupOpen /\ page.timers > 0

\* element e is torn down: no source node in the attached table, no edge left
TornDown(el) == ~el.attached /\ el.edges = {}

C33_Step ==
  \A e \in Elements :
    impl = "index"
    => /\ (elems[e].inDoc /\ ~elems'[e].inDoc) => TornDown(elems'[e])
       /\ (elems[e].attached /\ page'.last = "error" /\ elems'[e] # elems[e])
            => TornDown(elems'[e])

\* C33: after the observer of index.ts has processed the removal of a media
\* element from the document, removed directly or inside a removed subtree,
\* and after the element has fired a playback error, its source node is
\* disconnected and the element is not in the attached table.
C33_RemovedElementsTornDown == [][C33_Step]_vars

\* handling SETTINGS_UPDATED creates and drops no node
C34_Step ==
  page'.last = "SETTINGS_UPDATED"
  => /\ page'.contexts = page.contexts /\ page'.gainNode = page.gainNode
     /\ \A e \in Elements : /\ elems'[e].attached = elems[e].attached
                            /\ elems'[e].sources = elems[e].sources

\* at most one source node was ever created for an element
C34_OneSource == \A e \in Elements : elems[e].sources <= 1

\* C34: handling SETTINGS_UPDATED leaves the set of attached elements and the
\* source, compressor and gain nodes of each element as they are, and over
\* any sequence of discoveries and settings changes at most one source node
\* is ever created for an element.
C34_GraphNeverRecreated == [][C34_Step]_vars /\ []C34_OneSource

\* the step in which the page of index.ts becomes Active
BecomesActive == impl = "index" /\ ~page.initialized /\ page'.initialized

\* the step in which the observer of the Active page reports element e
ReportedAdded(e) ==
  impl = "index" /\ page.initialized /\ ~elems[e].inDoc /\ elems'[e].inDoc

\* as stated: every element added to the document of the Active page is attached
C35_AsStated ==
  [][\A e \in Elements :
       /\ (BecomesActive /\ elems'[e].inDoc) => elems'[e].attached
       /\ ReportedAdded(e) => elems'[e].attached]_vars

\* C35: when the page becomes Active every media element then in the
\* document is attached, also those discovered before the gesture, and every
\* media element added afterwards that was not torn down before is attached
\* when the observer reports it.
C35_DiscoveredElementsAttached ==
  [][\A e \in Elements :
       /\ (BecomesActive /\ elems'[e].inDoc) => elems'[e].attached
       /\ (ReportedAdded(e) /\ ~elems[e].detached) => elems'[e].attached]_vars

\* both elements are in the document and attached, the last of them reported
\* by the observer after the page became Active
C35_Witness ==
  /\ impl = "index" /\ page.initialized /\ page.last = "added"
  /\ \A e \in Elements : elems[e].inDoc /\ elems[e].attached /\ ~elems[e].detached

\* the responses of the guards of UPDATE_SETTINGS and RESET_SETTINGS
GuardErrors == {"Missing key or settings", "Missing tabId", "Missing key"}

\* the step in which a request that lacks a parameter is answered
C36_Step ==
  (/\ impl = "coordinator" /\ reply' # reply
   /\ reply'.type \in {"UPDATE_SETTINGS", "RESET_SETTINGS"}
   /\ reply'.resp.error \in GuardErrors)
  => /\ reply'.resp.sent /\ ~reply'.resp.success
     /\ siteSettings' = siteSettings /\ storageDoc' = storageDoc
     /\ req' = req /\ pushQ' = pushQ /\ tabs' = tabs

\* a request that lacks a parameter gets no other answer than the error
C36_Answer ==
  (impl = "coordinator" /\ reply.type \in {"UPDATE_SETTINGS", "RESET_SETTINGS"}
     /\ reply.key = "")
  => reply.resp.error \in GuardErrors

\* C36: an UPDATE_SETTINGS without key, settings or tab id and a
\* RESET_SETTINGS without key or tab id is answered with an error response,
\* leaves the cache and the stored document unchanged and sends no
\* SETTINGS_UPDATED.
C36_BadRequestsChangeNothing == [][C36_Step]_vars /\ []C36_Answer

\* a RESET_SETTINGS without tab id was refused while the cache held a record
\* of the key and a write of it was in flight
C36_Witness ==
  /\ impl = "coordinator"
  /\ reply.type = "RESET_SETTINGS" /\ reply.resp.error = "Missing tabId"
  /\ \E i \in 1..Len(req) : req[i].pc = "save" /\ req[i].key \in DOMAIN siteSettings

\* the step in which requestInitialSettings of content.js resumes
C37_Step ==
  (impl = "content" /\ page.response /\ ~page'.response)
  => /\ page'.settings # None
     /\ page'.tried

\* C37: when REQUEST_INITIAL_SETTINGS fails or its response carries no
\* settings, content.js takes the default settings and still runs
\* initialize(), as it does when the response carries settings.
C37_FallsBackToDefaults == [][C37_Step]_vars

\* the requests of the popup that reached an await
Awaited(i) ==
  i \in 1..Len(req) /\ req[i].type \in {"UPDATE_SETTINGS", "RESET_SETTINGS"}

\* a response is sent when the handler ends, not before, and never again
C38_Once ==
  \A i \in 1..Len(req) :
    Awaited(i) => /\ req[i].resp.sent <=> req[i].pc = "done"
                  /\ req[i].resp.sent => req'[i].resp = req[i].resp

\* a request answered before any await has its one response
C38_Direct ==
  reply.type \in {"GET_SETTINGS", "UPDATE_SETTINGS", "RESET_SETTINGS",
                  "REQUEST_INITIAL_SETTINGS"}
  => reply.resp.sent

\* C38: every GET_SETTINGS, UPDATE_SETTINGS, RESET_SETTINGS and
\* REQUEST_INITIAL_SETTINGS the coordinator handles gets exactly one response,
\* also without parameters, with an unreachable page and with a rejected
\* storage write, and none stays unanswered.
C38_EveryRequestAnswered ==
  /\ [][C38_Once]_vars
  /\ []C38_Direct
  /\ []<>(\A i \in 1..Len(req) : Awaited(i) => req[i].resp.sent)

\* an UPDATE_SETTINGS was answered although its storage write was rejected and
\* its page could not be reached
C38_Witness ==
  \E i \in 1..Len(req) :
    /\ req[i].type = "UPDATE_SETTINGS" /\ req[i].pc = "done" /\ req[i].resp.sent
    /\ req[i].resp.warning
    /\ req[i].key \notin DOMAIN storageDoc

\* C39: the meters of a panel show only values that came from the tab the
\* panel was opened for; a METER_UPDATE of another tab is ignored.
C39_MetersOfOwnTabOnly ==
  (impl = "content" /\ page.panel /\ page.meter # None)
  => page.meter[1].from = (CHOOSE t \in TabIds : TRUE)

====
